---- MODULE Spec2Model ----
(***************************************************************************)
(* JumppGuru backend: the query orchestrator (services/orchestrator.py),   *)
(* the Context Store (services/chat_history.py), the Knowledge Retriever   *)
(* (services/vector_search.py), the Web Resolver (services/web_*.py,       *)
(* vector_utils.py) and the lesson endpoint (api/deep_learning.py).        *)
(*                                                                         *)
(* Texts (queries, answers, message contents) are sequences of one-        *)
(* character strings, so that the regular expressions of is_direct_answer  *)
(* and the whitespace split of detect_language are computed on characters. *)
(* Identifiers (user ids, chat ids, roles, labels) are plain strings.      *)
(* Python's None is the string "None" where an identifier is expected and  *)
(* the empty sequence where find_one returns a document or nothing.        *)
(*                                                                         *)
(* The specifications share the variables:                                 *)
(*   Spec       one worker process running handle_user_query, a request    *)
(*              at a time, against the stores;                             *)
(*   ConcSpec   several worker processes, requests interleaving;           *)
(*   StoreSpec  callers of the Context Store API (save_message,            *)
(*              get_recent_messages), as mcq_generator.py and the          *)
(*              orchestrator are;                                          *)
(*   WriterSpec concurrent save_message calls of several worker processes, *)
(*              update_one taken at the steps the server runs it in;       *)
(*   CallSpec   callers of query_rag_chunks, insert_chunks and             *)
(*              detect_language;                                           *)
(*   PureSpec   callers of the functions that touch no store: chunk_text,  *)
(*              llm_orchestrator_decision, generate_mcqs_from_summary;     *)
(*   LessonSpec one worker process serving generate_deep_learning          *)
(*              (api/deep_learning.py), which calls the Knowledge Retriever*)
(*              and the Web Resolver (services/web_fallback.py) with its   *)
(*              fan-out of scrape_and_summarize tasks.                     *)
(***************************************************************************)
EXTENDS Integers, Sequences, FiniteSets, TLC

VARIABLES
    chat_collection,            \* mongo_db["chat_history"]: documents in insertion order
    chat_multimodal_collection, \* mongo_db["multimodal_chat_history"]
    mongo_collection,           \* mongo_db["first"]: the analytics records
    rag_chunks,                 \* db["rag_chunks"]: the vector-indexed chunk store
    req,                        \* per request in flight: the locals of handle_user_query and its position
    received,                   \* number of requests received so far
    ops,                        \* StoreSpec: number of Context Store calls made so far
    last,                       \* StoreSpec: the latest Context Store call and what it returned
    prev,                       \* StoreSpec: the call before it
    wr,                         \* WriterSpec: per concurrent save_message call, its position in update_one
    dl,                         \* LessonSpec: the locals of generate_deep_learning and its position
    web,                        \* LessonSpec: the locals of web_fallback_answer, its fan-out tasks, its position
    deep_learning_collection    \* LessonSpec: the stored lessons

vars == <<chat_collection, chat_multimodal_collection, mongo_collection,
          rag_chunks, req, received, ops, last, prev, wr, dl, web,
          deep_learning_collection>>

storeVars == <<chat_collection, chat_multimodal_collection, mongo_collection, rag_chunks>>
apiVars == <<ops, last, prev>>
\* the variables of WriterSpec and LessonSpec
otherVars == <<wr, dl, web, deep_learning_collection>>

-----------------------------------------------------------------------------
(* Bounds of the model.                                                    *)

MaxReq == 2
MaxInFlight == 2
MaxOps == 4
MaxLimit == 3
MaxWriters == 2
MaxTopK == 3
MaxCalls == 2
MaxLessons == 1

(* Program constants.                                                      *)

DefaultLimit == 10
DefaultTopK == 10
MinScorePct == 60
NumResults == 3
ScrapeBudget == 3000
ContextBudget == 7000
MaxLen == 300
ConfidencePct == 80
MaxChats == 5
LessonTopK == 5
LessonMinScorePct == 80

-----------------------------------------------------------------------------
(* Text helpers.                                                           *)

None == "None"

Min(a, b) == IF a <= b THEN a ELSE b

UpperChars == <<"A","B","C","D","E","F","G","H","I","J","K","L","M",
                "N","O","P","Q","R","S","T","U","V","W","X","Y","Z">>
LowerChars == <<"a","b","c","d","e","f","g","h","i","j","k","l","m",
                "n","o","p","q","r","s","t","u","v","w","x","y","z">>
Digits == {"0","1","2","3","4","5","6","7","8","9"}
Whitespace == {" ", "\n", "\t"}

\* str.lower(), one character
LowerChar(c) ==
    IF \E i \in 1..26 : UpperChars[i] = c
    THEN LowerChars[CHOOSE i \in 1..26 : UpperChars[i] = c]
    ELSE c

\* str.lower()
Lower(s) == [i \in 1..Len(s) |-> LowerChar(s[i])]

\* pattern p occurs in s at position i (1-based)
MatchAt(p, s, i) ==
    /\ i + Len(p) - 1 <= Len(s)
    /\ \A j \in 1..Len(p) : s[i + j - 1] = p[j]

\* re.search(r"^p", s)
StartsWith(p, s) == MatchAt(p, s, 1)

\* re.search(r"p", s) for a literal p
Contains(p, s) == \E i \in 1..Len(s) : MatchAt(p, s, i)

\* re.search(r"\d+ \+ \d+", s): some digit, " + ", some digit
ContainsSum(s) ==
    \E i \in 1..Len(s) :
        /\ i + 4 <= Len(s)
        /\ s[i] \in Digits
        /\ s[i+1] = " " /\ s[i+2] = "+" /\ s[i+3] = " "
        /\ s[i+4] \in Digits

PrefixPatterns ==
    { <<"w","h","a","t"," ","i","s">>,
      <<"w","h","o"," ","i","s">>,
      <<"d","e","f","i","n","e">>,
      <<"w","h","e","n"," ","d","i","d">>,
      <<"w","h","e","r","e"," ","i","s">>,
      <<"n","a","m","e"," ","t","h","e">>,
      <<"h","o","w"," ","m","a","n","y">>,
      <<"w","h","o"," ","w","o","n">> }

CapitalOf == <<"c","a","p","i","t","a","l"," ","o","f">>

is_direct_answer(query) ==
    LET q == Lower(query)
    IN  \/ \E p \in PrefixPatterns : StartsWith(p, q)
        \/ Contains(CapitalOf, q)
        \/ ContainsSum(q)

\* str.split(): the maximal runs of non-whitespace characters
RECURSIVE SplitFrom(_, _, _)
SplitFrom(s, i, cur) ==
    IF i > Len(s)
    THEN IF cur = <<>> THEN <<>> ELSE <<cur>>
    ELSE IF s[i] \in Whitespace
         THEN IF cur = <<>> THEN SplitFrom(s, i + 1, <<>>)
                            ELSE <<cur>> \o SplitFrom(s, i + 1, <<>>)
         ELSE SplitFrom(s, i + 1, Append(cur, s[i]))

Split(s) == SplitFrom(s, 1, <<>>)

hinglish_keywords ==
    { <<"k","y","a">>, <<"k","a","i","s","e">>, <<"h","a","i">>, <<"n","a","h","i">>,
      <<"m","e","r","a">>, <<"t","u","m">>, <<"k","e">>, <<"k","i">>, <<"h","o">>,
      <<"m","e">>, <<"k","y","u","n","k","i">>, <<"k","a">>, <<"k","b">> }

\* The outcomes of langdetect's detect(text): a language code, or an exception.
ClassifierOutcomes == {"en", "hi", "id", "raise"}

\* detect_language without its except clause: the classifier's exception escapes
detect_language_uncaught(text, cls) ==
    IF cls = "raise" THEN "LangDetectException"
    ELSE LET words == Split(Lower(text))
             hits == Cardinality({i \in 1..Len(words) : words[i] \in hinglish_keywords})
         IN  IF cls = "hi" /\ Len(words) = 0 THEN "ZeroDivisionError"
             ELSE IF cls = "hi" /\ 5 * hits > Len(words) THEN "hinglish"
             ELSE IF cls = "en" THEN "english" ELSE "hinglish"

\* detect_language(text) when the classifier answers cls
detect_language(text, cls) ==
    IF cls = "raise" THEN "english"
    ELSE LET words == Split(Lower(text))
             hits == Cardinality({i \in 1..Len(words) : words[i] \in hinglish_keywords})
         IN  IF cls = "hi" /\ Len(words) = 0 THEN "english"   \* ZeroDivisionError, caught
             ELSE IF cls = "hi" /\ 5 * hits > Len(words) THEN "hinglish"
             ELSE IF cls = "en" THEN "english" ELSE "hinglish"

-----------------------------------------------------------------------------
(* The Context Store: services/chat_history.py.                            *)

Message(role, content) == [role |-> role, content |-> content]

\* collection.find_one({"user_id": user_id}): <<>> or <<doc>>, the first match
FindUser(coll, user_id) ==
    LET idx == {i \in 1..Len(coll) : coll[i].user_id = user_id}
    IN  IF idx = {} THEN <<>>
        ELSE <<coll[CHOOSE i \in idx : \A j \in idx : i <= j]>>

\* seq[-limit:] of Python, for limit >= 0: -0 is 0, so seq[-0:] is the whole list
SliceLast(seq, limit) ==
    IF limit = 0 \/ limit >= Len(seq) THEN seq
    ELSE SubSeq(seq, Len(seq) - limit + 1, Len(seq))

\* save_message with upsert=True left out: a first write creates no record
save_message_no_upsert(coll, user_id, role, content) ==
    LET idx == {i \in 1..Len(coll) : coll[i].user_id = user_id}
    IN  IF idx = {}
        THEN coll
        ELSE LET k == CHOOSE i \in idx : \A j \in idx : i <= j
             IN  [coll EXCEPT ![k].messages = Append(@, Message(role, content))]

\* save_message with "$position": 0 in its $push: the new turn is written in
\* front of the turns already stored
save_message_front(coll, user_id, role, content) ==
    LET idx == {i \in 1..Len(coll) : coll[i].user_id = user_id}
    IN  IF idx = {}
        THEN Append(coll, [user_id |-> user_id, messages |-> <<Message(role, content)>>])
        ELSE LET k == CHOOSE i \in idx : \A j \in idx : i <= j
             IN  [coll EXCEPT ![k].messages = <<Message(role, content)>> \o @]

\* update_one({"user_id": u}, {"$push": {"messages": m}, "$set": ...}, upsert=True)
\* (last_updated, a wall-clock stamp no code of the model reads, is left out)
save_message(coll, user_id, role, content) ==
    LET idx == {i \in 1..Len(coll) : coll[i].user_id = user_id}
    IN  IF idx = {}
        THEN Append(coll, [user_id |-> user_id, messages |-> <<Message(role, content)>>])
        ELSE LET k == CHOOSE i \in idx : \A j \in idx : i <= j
             IN  [coll EXCEPT ![k].messages = Append(@, Message(role, content))]

\* get_recent_messages without its `if not doc` guard: None["messages"] raises
get_recent_messages_unguarded(coll, user_id, limit) ==
    LET doc == FindUser(coll, user_id)
    IN  IF doc = <<>>
        THEN [raised |-> TRUE, value |-> <<>>, coll |-> coll]
        ELSE LET msgs == SliceLast(doc[1].messages, limit)
             IN  [raised |-> FALSE,
                  value |-> [i \in 1..Len(msgs) |-> Message(msgs[i].role, msgs[i].content)],
                  coll |-> coll]

\* get_recent_messages reading with find_one_and_update and a $pop of the last
\* message: the read consumes what it returns
get_recent_messages_consuming(coll, user_id, limit) ==
    LET idx == {i \in 1..Len(coll) : coll[i].user_id = user_id}
    IN  IF idx = {}
        THEN [raised |-> FALSE, value |-> <<>>, coll |-> coll]
        ELSE LET k == CHOOSE i \in idx : \A j \in idx : i <= j
                 msgs == SliceLast(coll[k].messages, limit)
             IN  [raised |-> FALSE,
                  value |-> [i \in 1..Len(msgs) |-> Message(msgs[i].role, msgs[i].content)],
                  coll |-> [coll EXCEPT ![k].messages =
                              SubSeq(@, 1, Len(@) - Min(1, Len(@)))]]

\* get_recent_messages: what it returns (or that it raised) and the collection
\* after the call; find_one only reads
get_recent_messages(coll, user_id, limit) ==
    LET doc == FindUser(coll, user_id)
    IN  IF doc = <<>>
        THEN [raised |-> FALSE, value |-> <<>>, coll |-> coll]
        ELSE LET msgs == SliceLast(doc[1].messages, limit)
             IN  [raised |-> FALSE,
                  value |-> [i \in 1..Len(msgs) |-> Message(msgs[i].role, msgs[i].content)],
                  coll |-> coll]

\* chat_multimodal_collection.find_one({"chat_id": c, "role": role})
FindChat(coll, chat_id, role) ==
    LET idx == {i \in 1..Len(coll) : coll[i].chat_id = chat_id /\ coll[i].role = role}
    IN  IF idx = {} THEN <<>>
        ELSE <<coll[CHOOSE i \in idx : \A j \in idx : i <= j]>>

\* get_assistant_text_by_chat_id: subscripting a missing document (None) raises TypeError
get_assistant_text_by_chat_id(coll, chat_id) ==
    LET docs == FindChat(coll, chat_id, "assistant")
        docs1 == FindChat(coll, chat_id, "user")
    IN  IF docs = <<>> \/ docs1 = <<>>
        THEN [raised |-> TRUE, value |-> <<>>]
        ELSE [raised |-> FALSE,
              value |-> << Message("user", docs1[1].text_content),
                           Message("assistant", docs[1].text_content) >>]

-----------------------------------------------------------------------------
(* The inputs of the model.                                                *)

Users == {"u1", "u2"}
Roles == {"user", "assistant"}

QWhatIs  == <<"W","h","a","t"," ","i","s"," ","p","i">>
QExplain == <<"E","x","p","l","a","i","n"," ","d","n","a">>
QKyaHai  == <<"d","n","a"," ","k","y","a"," ","h","a","i">>
Queries == {QWhatIs, QExplain, QKyaHai}

Answers == { <<"o","k">> }

\* payload.lang: absent, empty, auto, the two tags, or any other string
LangHints == {None, "", "auto", "english", "hinglish", "tamil"}

\* payload.chat_id: absent, empty, or the id of a multimodal chat
ChatIds == {"c1", "c2"}
ChatIdInputs == {None, ""} \cup ChatIds

\* Python truthiness of an optional string
Falsy(x) == x = None \/ x = ""

-----------------------------------------------------------------------------
(* The Knowledge Retriever: services/vector_search.py.                     *)

Abs(x) == IF x < 0 THEN -x ELSE x

\* get_embedding(text): the provider's vector for a text (one dimension here)
get_embedding(text) ==
    IF text = QExplain THEN 2 ELSE IF text = QWhatIs THEN 6 ELSE 9

\* the searchScore of a stored vector against the query vector, in percent
ScorePct(qe, ce) ==
    LET d == Abs(qe - ce) IN IF 25 * d >= 100 THEN 0 ELSE 100 - 25 * d

\* knnBeta: the k nearest documents, best score first (ties in store order)
RECURSIVE Nearest(_, _, _, _)
Nearest(coll, left, qe, k) ==
    IF k = 0 \/ left = {} THEN <<>>
    ELSE LET best == CHOOSE i \in left :
                        \A j \in left :
                            \/ ScorePct(qe, coll[i].embedding) > ScorePct(qe, coll[j].embedding)
                            \/ /\ ScorePct(qe, coll[i].embedding) = ScorePct(qe, coll[j].embedding)
                               /\ i <= j
         IN  <<best>> \o Nearest(coll, left \ {best}, qe, k - 1)

\* query_rag_chunks without the $match stage of its pipeline
query_rag_chunks_unfiltered(coll, query, top_k, min_score) ==
    LET embedding == get_embedding(query)
        knn == Nearest(coll, 1..Len(coll), embedding, top_k)
    IN  [n \in 1..Len(knn) |->
            [text |-> coll[knn[n]].text,
             subject |-> coll[knn[n]].subject,
             score |-> ScorePct(embedding, coll[knn[n]].embedding)]]

\* query_rag_chunks: $search knnBeta k=top_k, $project, $match score >= min_score
query_rag_chunks(coll, query, top_k, min_score) ==
    LET embedding == get_embedding(query)
        knn == Nearest(coll, 1..Len(coll), embedding, top_k)
        projected == [n \in 1..Len(knn) |->
                        [text |-> coll[knn[n]].text,
                         subject |-> coll[knn[n]].subject,
                         score |-> ScorePct(embedding, coll[knn[n]].embedding)]]
        Clears(d) == d.score >= min_score
    IN  SelectSeq(projected, Clears)

-----------------------------------------------------------------------------
(* The Answer Generator and the orchestrator: services/orchestrator.py.    *)

\* the system prompt of generate_llm_response: prompt_values.get(user_lang, english)
SystemPrompt(user_lang) ==
    IF user_lang = "hinglish"
    THEN <<"You are a friendly Hinglish teacher ... answer in Hinglish">>
    ELSE <<"You are a friendly Indian teacher ... answer in English">>

\* A Python value that is a list, or the str "" (list + str raises TypeError)
PyList(seq) == [kind |-> "list", value |-> seq]
PyEmptyStr == [kind |-> "str", value |-> <<>>]

\* generate_llm_response, line 58: the messages of the completion call;
\* [raised, value]: concatenating a list and a str raises TypeError
BuildMessages(query, user_lang, history, additional_history) ==
    IF additional_history.kind # "list"
    THEN [raised |-> TRUE, value |-> <<>>]
    ELSE [raised |-> FALSE,
          value |-> <<Message("system", SystemPrompt(user_lang))>>
                    \o history \o additional_history.value
                    \o <<Message("user", query)>>]

\* the requests in flight: slots, reused when a request has ended
Reqs == 1..MaxInFlight

IdleReq ==
    [pc |-> "idle", query |-> <<>>, user_id |-> None, chat_id |-> None,
     user_lang |-> None, history |-> <<>>, additional_history |-> PyEmptyStr,
     messages |-> <<>>, script_text |-> <<>>, source |-> None,
     response |-> <<>>, error |-> None, calls |-> <<>>, faults |-> {}]

\* one request's locals changed
Set(r, new) == req' = [req EXCEPT ![r] = new]

Fail(r, error, fault) ==
    Set(r, [req[r] EXCEPT !.pc = "failed", !.error = error,
                          !.faults = @ \cup fault])

\* lines 153-160: the locals of the request; the language tag
ResolveLang(lang, query, cls) ==
    LET user_lang == IF Falsy(lang) THEN detect_language(query, cls) ELSE lang
    IN  IF user_lang = "auto" THEN detect_language(query, cls) ELSE user_lang

Ended(r) == req[r].pc \in {"idle", "done", "failed"}

Receive(r) ==
    /\ received < MaxReq
    /\ Ended(r)
    /\ \A q \in Reqs : q < r => ~Ended(q)
    /\ \E query \in Queries, lang \in LangHints, user_id \in Users,
          chat_id \in ChatIdInputs, cls \in ClassifierOutcomes :
          Set(r, [IdleReq EXCEPT
                    !.pc = "history",
                    !.query = query,
                    !.user_id = user_id,
                    !.chat_id = IF Falsy(chat_id) THEN None ELSE chat_id,
                    !.user_lang = ResolveLang(lang, query, cls)])
    /\ received' = received + 1
    /\ UNCHANGED <<storeVars, apiVars, otherVars>>

\* the user turn saved as soon as the history is read, before any answer
LoadHistorySaving(r) ==
    /\ req[r].pc = "history"
    /\ LET got == get_recent_messages(chat_collection, req[r].user_id, DefaultLimit)
       IN  IF got.raised
           THEN /\ Fail(r, "TypeError", {})
                /\ chat_collection' = got.coll
           ELSE \/ /\ Set(r, [req[r] EXCEPT !.pc = "additional",
                                            !.history = got.value,
                                            !.calls = Append(@, "get_recent_messages")])
                   /\ chat_collection' = save_message(got.coll, req[r].user_id,
                                                      "user", req[r].query)
                \/ /\ Fail(r, "PyMongoError", {"find_one"})
                   /\ UNCHANGED chat_collection
    /\ UNCHANGED <<chat_multimodal_collection, mongo_collection, rag_chunks, apiVars, received, otherVars>>

\* line 163: history = await get_recent_messages(user_id)
LoadHistory(r) ==
    /\ req[r].pc = "history"
    /\ LET got == get_recent_messages(chat_collection, req[r].user_id, DefaultLimit)
       IN  IF got.raised
           THEN /\ Fail(r, "TypeError", {})
                /\ chat_collection' = got.coll
           ELSE \/ /\ Set(r, [req[r] EXCEPT !.pc = "additional",
                                            !.history = got.value,
                                            !.calls = Append(@, "get_recent_messages")])
                   /\ chat_collection' = got.coll
                \/ \* the store is unreachable: find_one raises
                   /\ Fail(r, "PyMongoError", {"find_one"})
                   /\ UNCHANGED chat_collection
    /\ UNCHANGED <<chat_multimodal_collection, mongo_collection, rag_chunks, apiVars, received, otherVars>>

\* line 164: additional_history = await get_assistant_text_by_chat_id(chat_id) if chat_id else ""
LoadAdditional(r) ==
    /\ req[r].pc = "additional"
    /\ IF req[r].chat_id = None
       THEN Set(r, [req[r] EXCEPT !.pc = "generate", !.additional_history = PyEmptyStr])
       ELSE LET got == get_assistant_text_by_chat_id(chat_multimodal_collection, req[r].chat_id)
            IN  IF got.raised
                THEN Set(r, [req[r] EXCEPT !.pc = "failed", !.error = "TypeError",
                                !.calls = Append(@, "get_assistant_text_by_chat_id")])
                ELSE Set(r, [req[r] EXCEPT !.pc = "generate",
                                !.additional_history = PyList(got.value),
                                !.calls = Append(@, "get_assistant_text_by_chat_id")])
    /\ UNCHANGED <<storeVars, apiVars, received, otherVars>>

\* Generate with the commented-out search block (lines 175-197) enabled for every
\* query: the retriever is asked first, whatever is_direct_answer says
GenerateSearchFirst(r) ==
    /\ req[r].pc = "generate"
    /\ LET chunks == query_rag_chunks(rag_chunks, req[r].query, DefaultTopK, MinScorePct)
           label == IF chunks # <<>> THEN "RAG" ELSE "Web"
           path == IF chunks # <<>> THEN <<"query_rag_chunks", "completion">>
                                    ELSE <<"query_rag_chunks", "web_fallback_answer">>
       IN  \/ \E answer \in Answers :
                 Set(r, [req[r] EXCEPT
                           !.pc = "save_user",
                           !.script_text = answer,
                           !.source = label,
                           !.calls = @ \o path])
           \/ Set(r, [req[r] EXCEPT
                        !.pc = "failed", !.error = "APIError",
                        !.faults = @ \cup {"completion"},
                        !.calls = @ \o path])
    /\ UNCHANGED <<storeVars, apiVars, received, otherVars>>

\* lines 166-169: the routing (the search branch is commented out) and
\* generate_llm_response, lines 58-67
Generate(r) ==
    /\ req[r].pc = "generate"
    /\ LET built == BuildMessages(req[r].query, req[r].user_lang,
                                  req[r].history, req[r].additional_history)
       IN  IF built.raised
           THEN Set(r, [req[r] EXCEPT !.pc = "failed", !.error = "TypeError",
                           !.calls = Append(@, "generate_llm_response")])
           ELSE \/ \E answer \in Answers :
                      Set(r, [req[r] EXCEPT
                                !.pc = "save_user",
                                !.messages = built.value,
                                !.script_text = answer,
                                !.source = "LLM",
                                !.calls = @ \o <<"generate_llm_response", "completion">>])
                \/ \* the completion provider raises
                   Set(r, [req[r] EXCEPT
                             !.pc = "failed", !.error = "APIError",
                             !.messages = built.value,
                             !.faults = @ \cup {"completion"},
                             !.calls = @ \o <<"generate_llm_response", "completion">>])
    /\ UNCHANGED <<storeVars, apiVars, received, otherVars>>

\* lines 201-202 swapped: the assistant turn is saved where the user turn
\* should be
SaveUserTurnSwapped(r) ==
    /\ req[r].pc = "save_user"
    /\ \/ /\ chat_collection' = save_message(chat_collection, req[r].user_id,
                                             "assistant", req[r].script_text)
          /\ Set(r, [req[r] EXCEPT !.pc = "save_assistant",
                                   !.calls = Append(@, "save_message:assistant")])
       \/ /\ Fail(r, "PyMongoError", {"save_user"})
          /\ UNCHANGED chat_collection
    /\ UNCHANGED <<chat_multimodal_collection, mongo_collection, rag_chunks, apiVars, received, otherVars>>

\* line 201: await save_message(user_id, "user", query); a failure is not caught
SaveUserTurn(r) ==
    /\ req[r].pc = "save_user"
    /\ \/ /\ chat_collection' = save_message(chat_collection, req[r].user_id,
                                             "user", req[r].query)
          /\ Set(r, [req[r] EXCEPT !.pc = "save_assistant",
                                   !.calls = Append(@, "save_message:user")])
       \/ \* update_one raises
          /\ Fail(r, "PyMongoError", {"save_user"})
          /\ UNCHANGED chat_collection
    /\ UNCHANGED <<chat_multimodal_collection, mongo_collection, rag_chunks, apiVars, received, otherVars>>

\* line 202: await save_message(user_id, "assistant", script_text); not caught either
SaveAssistantTurn(r) ==
    /\ req[r].pc = "save_assistant"
    /\ \/ /\ chat_collection' = save_message(chat_collection, req[r].user_id,
                                             "assistant", req[r].script_text)
          /\ Set(r, [req[r] EXCEPT !.pc = "analytics",
                                   !.calls = Append(@, "save_message:assistant")])
       \/ \* update_one raises
          /\ Fail(r, "PyMongoError", {"save_assistant"})
          /\ UNCHANGED chat_collection
    /\ UNCHANGED <<chat_multimodal_collection, mongo_collection, rag_chunks, apiVars, received, otherVars>>

AnalyticsRecord(r) ==
    [user_id |-> req[r].user_id, query |-> req[r].query, response |-> req[r].script_text,
     language |-> req[r].user_lang, source |-> req[r].source]

\* lines 217-218: the QueryResponse
QueryResponse(r) ==
    <<[source |-> req[r].source, language |-> req[r].user_lang,
       script |-> req[r].script_text]>>

\* lines 205-218: the analytics insert inside try/except, then the return
PersistAndReturn(r) ==
    /\ req[r].pc = "analytics"
    /\ \/ /\ mongo_collection' = Append(mongo_collection, AnalyticsRecord(r))
          /\ Set(r, [req[r] EXCEPT !.pc = "done", !.response = QueryResponse(r),
                                   !.calls = Append(@, "insert_one")])
       \/ \* insert_one raises: printed, not raised
          /\ UNCHANGED mongo_collection
          /\ Set(r, [req[r] EXCEPT !.pc = "done", !.response = QueryResponse(r),
                                   !.faults = @ \cup {"insert_one"},
                                   !.calls = Append(@, "insert_one")])
    /\ UNCHANGED <<chat_collection, chat_multimodal_collection, rag_chunks, apiVars, received, otherVars>>

-----------------------------------------------------------------------------
(* Text operations of the Web Resolver.                                    *)

\* a text of n characters c
Rep(c, n) == [i \in 1..n |-> c]

\* s[:n]
Truncate(s, n) == SubSeq(s, 1, Min(n, Len(s)))

\* sep.join(texts)
RECURSIVE Join(_, _)
Join(texts, sep) ==
    IF texts = <<>> THEN <<>>
    ELSE IF Len(texts) = 1 THEN texts[1]
    ELSE texts[1] \o sep \o Join(Tail(texts), sep)

RECURSIVE FirstNonSpace(_, _)
FirstNonSpace(s, i) ==
    IF i > Len(s) \/ s[i] \notin Whitespace THEN i ELSE FirstNonSpace(s, i + 1)

RECURSIVE LastNonSpace(_, _)
LastNonSpace(s, i) ==
    IF i < 1 \/ s[i] \notin Whitespace THEN i ELSE LastNonSpace(s, i - 1)

\* str.strip()
Strip(s) == SubSeq(s, FirstNonSpace(s, 1), LastNonSpace(s, Len(s)))

\* text.split(". "): the pieces between the occurrences of ". ", left to right
RECURSIVE SplitAt(_, _, _)
SplitAt(s, seps, from) ==
    IF seps = {} THEN <<SubSeq(s, from, Len(s))>>
    ELSE LET i == CHOOSE k \in seps : \A j \in seps : k <= j
         IN  <<SubSeq(s, from, i - 1)>> \o SplitAt(s, seps \ {i}, i + 2)

SplitSentences(text) ==
    SplitAt(text, {i \in 1..(Len(text) - 1) : text[i] = "." /\ text[i + 1] = " "}, 1)

\* the loop of chunk_text and the statement after it
RECURSIVE Pack(_, _, _, _, _)
Pack(sentences, k, current_chunk, chunks, max_len) ==
    IF k > Len(sentences)
    THEN IF current_chunk # <<>> THEN Append(chunks, Strip(current_chunk)) ELSE chunks
    ELSE IF Len(current_chunk) + Len(sentences[k]) < max_len
         THEN Pack(sentences, k + 1, current_chunk \o sentences[k] \o <<".", " ">>,
                   chunks, max_len)
         ELSE Pack(sentences, k + 1, sentences[k] \o <<".", " ">>,
                   Append(chunks, Strip(current_chunk)), max_len)

chunk_text(text, max_len) == Pack(SplitSentences(text), 1, <<>>, <<>>, max_len)

\* str(urls) of a list of str: "['u1', 'u2']"
ListRepr(urls) ==
    <<"[">> \o Join([i \in 1..Len(urls) |-> <<"'">> \o urls[i] \o <<"'">>], <<",", " ">>)
            \o <<"]">>

-----------------------------------------------------------------------------
(* The Web Resolver: services/web_fallback.py, web_search.py,              *)
(* web_scrape.py, vector_utils.py.                                         *)

PyNone == [kind |-> "None", value |-> <<>>]

\* `if not urls` read as `if urls is None`: an empty list is not caught
NoneOnly(x) == x.kind = "None"

\* Python truthiness of a list or None
NotTruthy(x) == x.kind = "None" \/ x.value = <<>>

NothingFound == <<"Sorry, I couldn't find anything useful on the web.">>

\* the links of the organic results, in result order
UrlPool == << <<"u","1">>, <<"u","2">>, <<"u","3">> >>

\* the paragraph text of a page: the second page is over the scrape budget
PageText(url) ==
    IF url = UrlPool[2] THEN Rep("p", ScrapeBudget + 1) ELSE <<"p","a","g","e">>

\* what the summarizer may return: a blank text, two sentences that do not fit
\* one chunk together, a long text without a sentence break
BlankSummary == <<" ">>
TwoSentences == Rep("a", 200) \o <<".", " ">> \o Rep("b", 200)
LongSummary == Rep("x", ContextBudget - MaxLen)
SummaryOutputs == {BlankSummary, TwoSentences, LongSummary}

\* the counters of the external calls one web_fallback_answer has made
NoCalls ==
    [web_search |-> 0, fetch |-> 0, summarize |-> 0, get_embedding |-> 0,
     insert_many |-> 0, final_completion |-> 0]

IdleWeb ==
    [pc |-> "idle", query |-> <<>>, history |-> <<>>, urls |-> PyNone, task |-> <<>>,
     summaries |-> <<>>, context |-> <<>>, chunks |-> <<>>, messages |-> <<>>,
     value |-> <<>>, error |-> None, calls |-> NoCalls, faults |-> {},
     embed_failed |-> {}]

\* web_fallback_answer(query, history) is entered
EnterWeb(query, history) ==
    [IdleWeb EXCEPT !.pc = "search", !.query = query, !.history = history]

\* a task of the gather: scrape_and_summarize(url), run up to its await of the GET
NewTask(url) ==
    [pc |-> "fetching", url |-> url, text |-> <<>>, summary |-> <<>>, fault |-> None]

\* web_fallback.py 16-23: web_search, the `if not urls` return, the gather started
WebSearch ==
    /\ web.pc = "search"
    /\ \/ \* requests.get or .json() raises: web_search prints and returns None
          web' = [web EXCEPT !.pc = "returned", !.urls = PyNone, !.value = NothingFound,
                             !.calls.web_search = @ + 1,
                             !.faults = @ \cup {"web_search"}]
       \/ \E n \in 0..NumResults :
             LET urls == SubSeq(UrlPool, 1, n)
             IN  IF NotTruthy(PyList(urls))
                 THEN web' = [web EXCEPT !.pc = "returned", !.urls = PyList(urls),
                                         !.value = NothingFound,
                                         !.calls.web_search = @ + 1]
                 ELSE web' = [web EXCEPT !.pc = "gather", !.urls = PyList(urls),
                                         !.task = [i \in 1..n |-> NewTask(urls[i])],
                                         !.calls.web_search = @ + 1]
    /\ UNCHANGED <<storeVars, req, received, apiVars, wr, dl, deep_learning_collection>>

\* web_scrape.py 9-32, from the response of the GET on: the page is fetched and
\* parsed inside try/except, the summarization call is made outside it. The
\* task runs on whether or not the gather it belongs to is still awaited.
ScrapeAndSummarize(i) ==
    /\ i \in 1..Len(web.task)
    /\ web.task[i].pc = "fetching"
    /\ \/ \* the GET, raise_for_status or the parse raises: return ""
          web' = [web EXCEPT !.task[i].pc = "returned", !.task[i].summary = <<>>,
                             !.task[i].fault = "fetch",
                             !.calls.fetch = @ + 1,
                             !.faults = @ \cup {"fetch"}]
       \/ \E summary \in SummaryOutputs :
             web' = [web EXCEPT !.task[i].pc = "returned",
                                !.task[i].text = Truncate(PageText(web.task[i].url), ScrapeBudget),
                                !.task[i].summary = summary,
                                !.calls.fetch = @ + 1,
                                !.calls.summarize = @ + 1]
       \/ \* the summarization call raises: nothing catches it in the task
          web' = [web EXCEPT !.task[i].pc = "raised",
                             !.task[i].fault = "summarize",
                             !.task[i].text = Truncate(PageText(web.task[i].url), ScrapeBudget),
                             !.calls.fetch = @ + 1,
                             !.calls.summarize = @ + 1,
                             !.faults = @ \cup {"summarize"}]
    /\ UNCHANGED <<storeVars, req, received, apiVars, wr, dl, deep_learning_collection>>

\* line 23: asyncio.gather without return_exceptions hands the first exception
\* of a task to its awaiter as soon as that task has raised
GatherRaise ==
    /\ web.pc = "gather"
    /\ \E i \in 1..Len(web.task) : web.task[i].pc = "raised"
    /\ web' = [web EXCEPT !.pc = "raised", !.error = "APIError"]
    /\ UNCHANGED <<storeVars, req, received, apiVars, wr, dl, deep_learning_collection>>

\* line 24 left out: every summary is kept, the empty ones too
KeepAll(summaries) == summaries

\* the summaries that pass `if s.strip()`
NonBlank(summaries) ==
    LET Kept(t) == Strip(t) # <<>> IN SelectSeq(summaries, Kept)

\* line 25 without its [:7000]
ContextUntruncated(summaries) == Join(summaries, <<"\n", "\n">>)

\* line 25
Context(summaries) == Truncate(Join(summaries, <<"\n", "\n">>), ContextBudget)

\* lines 23-25: every task has returned; the summaries in task order, filtered,
\* joined and truncated
GatherReturn ==
    /\ web.pc = "gather"
    /\ \A i \in 1..Len(web.task) : web.task[i].pc = "returned"
    /\ LET summaries == NonBlank([i \in 1..Len(web.task) |-> web.task[i].summary])
       IN  web' = [web EXCEPT !.pc = "reindex", !.summaries = summaries,
                              !.context = Context(summaries)]
    /\ UNCHANGED <<storeVars, req, received, apiVars, wr, dl, deep_learning_collection>>

\* the document chunk_and_store_summary builds for a chunk (top-level subject: absent)
WebDocument(chunk, query, source_url) ==
    [text |-> chunk, embedding |-> get_embedding(chunk), query |-> query,
     source |-> "web", origin_url |-> source_url, subject |-> None,
     metadata |-> [content_type |-> "web_summary", confidence_score |-> ConfidencePct,
                   subject |-> "general"]]

\* chunk_and_store_summary with one try around the whole loop: a failed
\* embedding leaves no document at all
DocumentsAllOrNothing(chunks, embed_failed, query, source_url) ==
    IF embed_failed # {} THEN <<>>
    ELSE [n \in 1..Len(chunks) |->
            [text |-> chunks[n], embedding |-> get_embedding(chunks[n]), query |-> query,
             source |-> "web", origin_url |-> source_url, subject |-> None,
             metadata |-> [content_type |-> "web_summary",
                           confidence_score |-> ConfidencePct, subject |-> "general"]]]

\* the documents of the chunks whose embedding did not fail, in chunk order
Documents(chunks, embed_failed, query, source_url) ==
    LET kept == SelectSeq([k \in 1..Len(chunks) |-> k], LAMBDA k : k \notin embed_failed)
    IN  [n \in 1..Len(kept) |-> WebDocument(chunks[kept[n]], query, source_url)]

\* line 32, vector_utils.py 28-63: chunk_and_store_summary; each get_embedding
\* and the insert_many sit in their own try/except
ChunkAndStoreSummary ==
    /\ web.pc = "reindex"
    /\ LET chunks == chunk_text(web.context, MaxLen)
       IN  IF chunks = <<>>
           THEN /\ web' = [web EXCEPT !.pc = "final"]
                /\ UNCHANGED rag_chunks
           ELSE \E embed_failed \in SUBSET (1..Len(chunks)), insert_fails \in BOOLEAN :
                   LET documents == Documents(chunks, embed_failed, web.query,
                                              ListRepr(web.urls.value))
                       stored == documents # <<>> /\ ~insert_fails
                   IN  /\ rag_chunks' = IF stored THEN rag_chunks \o documents
                                                  ELSE rag_chunks
                       /\ web' = [web EXCEPT
                                    !.pc = "final",
                                    !.chunks = chunks,
                                    !.embed_failed = embed_failed,
                                    !.calls.get_embedding = @ + Len(chunks),
                                    !.calls.insert_many =
                                        IF documents # <<>> THEN @ + 1 ELSE @,
                                    !.faults = @ \cup
                                        (IF embed_failed # {} THEN {"get_embedding"} ELSE {})
                                        \cup (IF documents # <<>> /\ insert_fails
                                              THEN {"insert_many"} ELSE {})]
    /\ UNCHANGED <<chat_collection, chat_multimodal_collection, mongo_collection,
                   req, received, apiVars, wr, dl, deep_learning_collection>>

\* lines 36-41: the messages of the final completion call
FinalMessages(context, query, history) ==
    <<Message("system", <<"You're a helpful educational assistant.">>)>>
    \o history
    \o <<Message("user",
                 <<"Use the following web content to answer the user's question:\n\n">>
                 \o context \o <<"\n\nQuestion: ">> \o query)>>

\* lines 36-48: the final completion call and the return of its content
FinalCompletion ==
    /\ web.pc = "final"
    /\ LET messages == FinalMessages(web.context, web.query, web.history)
       IN  \/ \E answer \in Answers :
                 web' = [web EXCEPT !.pc = "returned", !.messages = messages,
                                    !.value = answer,
                                    !.calls.final_completion = @ + 1]
           \/ \* the completion provider raises
              web' = [web EXCEPT !.pc = "raised", !.messages = messages,
                                 !.error = "APIError",
                                 !.calls.final_completion = @ + 1,
                                 !.faults = @ \cup {"final_completion"}]
    /\ UNCHANGED <<storeVars, req, received, apiVars, wr, dl, deep_learning_collection>>

-----------------------------------------------------------------------------
(* The lesson endpoint, the caller of the Knowledge Retriever and of the    *)
(* Web Resolver: api/deep_learning.py, generate_deep_learning.              *)

ChatA == [query |-> QWhatIs, response |-> <<"o","k">>]

\* payload.chats: none, one, more than the endpoint accepts
LessonPayloads == { <<>>, <<ChatA>>, [i \in 1..(MaxChats + 1) |-> ChatA] }

\* lines 56-58: "Q: {query}\nA: {response}\n\n" for each chat
RECURSIVE CombinedContext(_)
CombinedContext(chats) ==
    IF chats = <<>> THEN <<>>
    ELSE <<"Q", ":", " ">> \o chats[1].query \o <<"\n", "A", ":", " ">>
         \o chats[1].response \o <<"\n", "\n">> \o CombinedContext(Tail(chats))

Lessons == { <<"l","e","s","s","o","n">> }

IdleLesson ==
    [pc |-> "idle", n |-> 0, combined_context |-> <<>>, chunk_text |-> <<>>,
     lesson_data |-> <<>>, response |-> <<>>, error |-> None,
     calls |-> [query_rag_chunks |-> 0, web_fallback_answer |-> 0,
                completion |-> 0, insert_one |-> 0],
     faults |-> {}]

\* lines 48-58: a request arrives; the check of the number of chats; the context
GenerateDeepLearning ==
    /\ dl.pc \in {"idle", "rejected", "done", "failed"}
    /\ dl.n < MaxLessons
    /\ \A i \in 1..Len(web.task) : web.task[i].pc # "fetching"
    /\ \E chats \in LessonPayloads :
          IF ~(1 <= Len(chats) /\ Len(chats) <= MaxChats)
          THEN dl' = [IdleLesson EXCEPT !.pc = "rejected", !.n = dl.n + 1,
                                        !.response = <<"Please select between 1 to 5 chats.">>]
          ELSE dl' = [IdleLesson EXCEPT !.pc = "retrieve", !.n = dl.n + 1,
                                        !.combined_context = CombinedContext(chats)]
    /\ web' = IdleWeb
    /\ UNCHANGED <<storeVars, req, received, apiVars, wr, deep_learning_collection>>

\* lines 61-70: query_rag_chunks(combined_context, 5, 0.8), not inside a try;
\* chunk_text; with no chunk_text web_fallback_answer(combined_context) is entered
RetrieveChunks ==
    /\ dl.pc = "retrieve"
    /\ \/ \* get_embedding raises inside query_rag_chunks
          /\ dl' = [dl EXCEPT !.pc = "failed", !.error = "APIError",
                              !.calls.query_rag_chunks = @ + 1,
                              !.faults = @ \cup {"get_embedding"}]
          /\ UNCHANGED web
       \/ LET related_chunks == query_rag_chunks(rag_chunks, dl.combined_context,
                                                 LessonTopK, LessonMinScorePct)
              chunk_text_ == IF related_chunks # <<>>
                             THEN Join([i \in 1..Len(related_chunks) |->
                                            related_chunks[i].text], <<"\n">>)
                             ELSE <<>>
          IN  IF chunk_text_ = <<>>
              THEN /\ dl' = [dl EXCEPT !.pc = "web",
                                       !.calls.query_rag_chunks = @ + 1,
                                       !.calls.web_fallback_answer = @ + 1]
                   /\ web' = EnterWeb(dl.combined_context, <<>>)
              ELSE /\ dl' = [dl EXCEPT !.pc = "lesson", !.chunk_text = chunk_text_,
                                       !.calls.query_rag_chunks = @ + 1]
                   /\ UNCHANGED web
    /\ UNCHANGED <<storeVars, req, received, apiVars, wr, deep_learning_collection>>

\* lines 70-71: web_fallback_answer has returned or raised; nothing catches
WebFallbackSettled ==
    /\ dl.pc = "web"
    /\ web.pc \in {"returned", "raised"}
    /\ IF web.pc = "returned"
       THEN dl' = [dl EXCEPT !.pc = "lesson", !.chunk_text = web.value]
       ELSE dl' = [dl EXCEPT !.pc = "failed", !.error = web.error]
    /\ UNCHANGED <<storeVars, req, received, apiVars, wr, web, deep_learning_collection>>

\* lines 92-103: the completion call of the lesson
GenerateLesson ==
    /\ dl.pc = "lesson"
    /\ \/ \E lesson_data \in Lessons :
             dl' = [dl EXCEPT !.pc = "save", !.lesson_data = lesson_data,
                              !.calls.completion = @ + 1]
       \/ dl' = [dl EXCEPT !.pc = "failed", !.error = "APIError",
                           !.calls.completion = @ + 1,
                           !.faults = @ \cup {"completion"}]
    /\ UNCHANGED <<storeVars, req, received, apiVars, wr, web, deep_learning_collection>>

\* lines 108-116: insert_one of the lesson, not inside a try; the QueryResponse
SaveLesson ==
    /\ dl.pc = "save"
    /\ \/ /\ deep_learning_collection' =
                Append(deep_learning_collection, [lesson |-> dl.lesson_data])
          /\ dl' = [dl EXCEPT !.pc = "done", !.calls.insert_one = @ + 1,
                              !.response = <<[source |-> "DEEP_LEARNING",
                                              language |-> "GENERAL",
                                              script |-> dl.lesson_data]>>]
       \/ /\ dl' = [dl EXCEPT !.pc = "failed", !.error = "PyMongoError",
                              !.calls.insert_one = @ + 1,
                              !.faults = @ \cup {"insert_one"}]
          /\ UNCHANGED deep_learning_collection
    /\ UNCHANGED <<storeVars, req, received, apiVars, wr, web>>

-----------------------------------------------------------------------------
(* Concurrent save_message calls: worker processes on one chat_history      *)
(* collection. db/mongodb.py creates no index on user_id, so the server     *)
(* runs update_one(filter, update, upsert=True) as: match the filter; on a  *)
(* match apply the $push to that document (atomic on the document); on no   *)
(* match insert a document built from the filter and the update. Two        *)
(* upserts that both matched nothing both insert.                           *)

Writers == 1..MaxWriters

IdleWriter == [pc |-> "idle", user_id |-> None, role |-> None, content |-> <<>>]

\* a worker enters save_message(user_id, role, content)
SaveBegin(w) ==
    /\ wr[w].pc = "idle"
    /\ \E user_id \in Users, role \in Roles, content \in {QWhatIs, <<"o","k">>} :
          wr' = [wr EXCEPT ![w] = [pc |-> "update_one", user_id |-> user_id,
                                   role |-> role, content |-> content]]
    /\ UNCHANGED <<storeVars, req, received, apiVars, dl, web, deep_learning_collection>>

\* update_one on the server: the filter is matched; a matched document gets the
\* $push at once, no match leaves the upsert's insert to come
UpdateOneMatch(w) ==
    /\ wr[w].pc = "update_one"
    /\ IF FindUser(chat_collection, wr[w].user_id) # <<>>
       THEN /\ chat_collection' = save_message(chat_collection, wr[w].user_id,
                                               wr[w].role, wr[w].content)
            /\ wr' = [wr EXCEPT ![w].pc = "done"]
       ELSE /\ wr' = [wr EXCEPT ![w].pc = "upsert_insert"]
            /\ UNCHANGED chat_collection
    /\ UNCHANGED <<chat_multimodal_collection, mongo_collection, rag_chunks,
                   req, received, apiVars, dl, web, deep_learning_collection>>

\* the insert of an upsert that matched nothing: the document save_message
\* builds for a user without a record
UpsertInsert(w) ==
    /\ wr[w].pc = "upsert_insert"
    /\ chat_collection' = chat_collection \o
                          save_message(<<>>, wr[w].user_id, wr[w].role, wr[w].content)
    /\ wr' = [wr EXCEPT ![w].pc = "done"]
    /\ UNCHANGED <<chat_multimodal_collection, mongo_collection, rag_chunks,
                   req, received, apiVars, dl, web, deep_learning_collection>>

-----------------------------------------------------------------------------
(* The stores at start.                                                    *)

\* genai_router._save_chat_messages writes a chat's user and assistant documents;
\* c1 has both, c2 has none (an id no chat was stored under)
InitMultimodal ==
    << [chat_id |-> "c1", role |-> "user", text_content |-> <<"h","i">>],
       [chat_id |-> "c1", role |-> "assistant", text_content |-> <<"y","o">>] >>

\* the ingested chunks: two near QExplain's vector, one far from every query
InitRagChunks ==
    << [text |-> <<"d","n","a"," ","2">>, subject |-> "bio", embedding |-> 3],
       [text |-> <<"d","n","a"," ","1">>, subject |-> "bio", embedding |-> 2],
       [text |-> <<"r","n","a">>, subject |-> "bio", embedding |-> 13] >>

NoCall == [op |-> "none", user_id |-> None, role |-> None, content |-> <<>>,
           limit |-> 0, raised |-> FALSE, value |-> <<>>]

Init ==
    /\ chat_collection = <<>>
    /\ chat_multimodal_collection = InitMultimodal
    /\ mongo_collection = <<>>
    /\ rag_chunks = InitRagChunks
    /\ req = [r \in Reqs |-> IdleReq]
    /\ received = 0
    /\ ops = 0
    /\ last = NoCall
    /\ prev = NoCall
    /\ wr = [w \in Writers |-> IdleWriter]
    /\ dl = IdleLesson
    /\ web = IdleWeb
    /\ deep_learning_collection = <<>>

\* handle_user_query awaits only coroutines that make blocking calls (pymongo,
\* the OpenAI client): it never yields to the event loop, so a worker process
\* runs one request to its end before it takes the next
WorkerFree == \A q \in Reqs : Ended(q)

\* one worker process
Next ==
    \E r \in Reqs :
        \/ WorkerFree /\ Receive(r)
        \/ LoadHistory(r)
        \/ LoadAdditional(r)
        \/ Generate(r)
        \/ SaveUserTurn(r)
        \/ SaveAssistantTurn(r)
        \/ PersistAndReturn(r)

Spec == Init /\ [][Next]_vars

\* several worker processes on the same stores: requests interleave at every
\* external call
ConcNext ==
    \E r \in Reqs :
        \/ Receive(r)
        \/ LoadHistory(r)
        \/ LoadAdditional(r)
        \/ Generate(r)
        \/ SaveUserTurn(r)
        \/ SaveAssistantTurn(r)
        \/ PersistAndReturn(r)

ConcSpec == Init /\ [][ConcNext]_vars

-----------------------------------------------------------------------------
(* Claims about handle_user_query, checked under Spec.                     *)

\* how often a call occurs in a request's log of calls
Count(name, calls) == Cardinality({i \in 1..Len(calls) : calls[i] = name})

\* the request has an answer: it is past the generation step
Answered(r) == req[r].pc \in {"save_user", "save_assistant", "analytics", "done"}

\* the request has been through the generation step, answered or not
PastGenerate(r) ==
    \/ Answered(r)
    \/ req[r].pc = "failed" /\ Count("generate_llm_response", req[r].calls) = 1

\* what the Knowledge Retriever returns for the request's query
Retrieved(r) == query_rag_chunks(rag_chunks, req[r].query, DefaultTopK, MinScorePct)

\* C1: a query that matches a direct-answer pattern is answered through the
\* direct completion path with source label LLM, and the request never calls
\* query_rag_chunks or web_fallback_answer.
C1_DirectNeverSearches ==
    \A r \in Reqs :
        \/ /\ Count("query_rag_chunks", req[r].calls) = 0
           /\ Count("web_fallback_answer", req[r].calls) = 0
           /\ Answered(r) =>
                /\ req[r].source = "LLM"
                /\ Count("generate_llm_response", req[r].calls) = 1
                /\ Count("completion", req[r].calls) = 1
           /\ req[r].pc = "done" => req[r].response[1].source = "LLM"
        \/ ~(req[r].pc # "idle" /\ is_direct_answer(req[r].query))

\* C1 witness: a direct-answerable query has been answered and returned.
C1_Witness ==
    \E r \in Reqs :
        /\ req[r].pc = "done"
        /\ is_direct_answer(req[r].query)
        /\ req[r].response[1].source = "LLM"
        /\ req[r].response[1].script \in Answers

\* the first position at which p occurs in s, 0 when it does not
FirstPos(p, s) ==
    IF Contains(p, s) THEN CHOOSE i \in 1..Len(s) :
                               MatchAt(p, s, i) /\ \A j \in 1..(i-1) : ~MatchAt(p, s, j)
    ELSE 0

\* the chunk texts occur in one message, each after the one before it
InOrderIn(chunks, content) ==
    /\ \A i \in 1..Len(chunks) : Contains(chunks[i].text, content)
    /\ \A i \in 1..(Len(chunks) - 1) :
           FirstPos(chunks[i].text, content) < FirstPos(chunks[i+1].text, content)

\* C2: for a query that is not direct-answerable and for which the retriever
\* returns at least one chunk above the threshold, the response has source label
\* RAG and the completion messages contain every returned chunk's text, in
\* descending score order.
C2_RagSourceAndContext ==
    \A r \in Reqs :
        (/\ req[r].pc = "done"
         /\ ~is_direct_answer(req[r].query)
         /\ Retrieved(r) # <<>>)
        => /\ req[r].response[1].source = "RAG"
           /\ \E i \in 1..Len(req[r].messages) :
                  InOrderIn(Retrieved(r), req[r].messages[i].content)

\* C3: for a query that is not direct-answerable and for which the retriever
\* returns no chunk, the request calls web_fallback_answer exactly once and the
\* response has source label WEB.
C3_WebFallbackOnce ==
    \A r \in Reqs :
        (/\ req[r].pc = "done"
         /\ ~is_direct_answer(req[r].query)
         /\ Retrieved(r) = <<>>)
        => /\ Count("web_fallback_answer", req[r].calls) = 1
           /\ req[r].response[1].source = "WEB"

\* failures of the document store injected into a request
StoreFaults == {"find_one", "save_user", "save_assistant", "insert_one"}

\* C4: handle_user_query fails only if the final completion call fails: a
\* request whose completion call would succeed (and whose store calls all
\* succeed) returns a response carrying the answer, with or without a chat_id,
\* with a chat_id that has no stored messages, with any stored history.
C4_FailsOnlyIfCompletionFails ==
    \A r \in Reqs :
        (req[r].pc = "failed" /\ req[r].faults \cap StoreFaults = {})
        => "completion" \in req[r].faults

\* C5: a failure of a persistence write made after the answer is produced (the
\* user-turn save, the assistant-turn save, the analytics insert) is never
\* propagated: the request still returns the answer, language and source label.
C5_PersistenceFailureNotPropagated ==
    \A r \in Reqs :
        (Count("completion", req[r].calls) = 1 /\ "completion" \notin req[r].faults)
        => /\ req[r].pc # "failed"
           /\ req[r].pc = "done" =>
                req[r].response = <<[source |-> req[r].source,
                                     language |-> req[r].user_lang,
                                     script |-> req[r].script_text]>>

\* C6: for every history length, a user with no conversation record and a
\* request without chat_id included, the direct-path generator builds the
\* messages as the system message, then the historical turns in stored order,
\* then the current user query, and issues the completion call without failing
\* on empty history.
C6_MessagesBuiltAndCallIssued ==
    \A r \in Reqs :
        PastGenerate(r) =>
            LET m == req[r].messages
                h == req[r].history
            IN  /\ Count("completion", req[r].calls) = 1
                /\ Len(m) >= Len(h) + 2
                /\ m[1].role = "system"
                /\ SubSeq(m, 2, Len(h) + 1) = h
                /\ m[Len(m)] = Message("user", req[r].query)

-----------------------------------------------------------------------------
(* StoreSpec: callers of the Context Store API.                            *)

\* the contents callers save: a query, an answer
Contents == {QWhatIs, <<"o","k">>}
Limits == 0..MaxLimit

\* a caller awaits save_message(user_id, role, content)
SaveMessageCall ==
    /\ ops < MaxOps
    /\ \E user_id \in Users, role \in Roles, content \in Contents :
          /\ chat_collection' = save_message(chat_collection, user_id, role, content)
          /\ last' = [op |-> "save", user_id |-> user_id, role |-> role,
                      content |-> content, limit |-> 0, raised |-> FALSE, value |-> <<>>]
    /\ prev' = last
    /\ ops' = ops + 1
    /\ UNCHANGED <<chat_multimodal_collection, mongo_collection, rag_chunks, req, received, otherVars>>

\* a caller awaits get_recent_messages(user_id, limit)
GetRecentCall ==
    /\ ops < MaxOps
    /\ \E user_id \in Users, limit \in Limits :
          LET got == get_recent_messages(chat_collection, user_id, limit)
          IN  /\ chat_collection' = got.coll
              /\ last' = [op |-> "get", user_id |-> user_id, role |-> None,
                          content |-> <<>>, limit |-> limit,
                          raised |-> got.raised, value |-> got.value]
    /\ prev' = last
    /\ ops' = ops + 1
    /\ UNCHANGED <<chat_multimodal_collection, mongo_collection, rag_chunks, req, received, otherVars>>

StoreNext == SaveMessageCall \/ GetRecentCall

StoreSpec == Init /\ [][StoreNext]_vars

-----------------------------------------------------------------------------
(* Claims about the Context Store, checked under StoreSpec.                *)

\* the turns stored for a user, <<>> when the user has no record
UserTurns(coll, user_id) ==
    LET doc == FindUser(coll, user_id)
    IN  IF doc = <<>> THEN <<>> ELSE doc[1].messages

\* the last k turns of a sequence, 0 <= k <= Len(seq)
LastTurns(seq, k) == SubSeq(seq, Len(seq) - k + 1, Len(seq))

\* C7: for a conversation of n turns and every limit >= 0, get_recent_messages
\* returns exactly the last min(limit, n) turns in insertion order, never more
\* than limit turns.
C7_ReturnsLastMinLimitN ==
    last.op = "get" =>
        LET turns == UserTurns(chat_collection, last.user_id)
        IN  /\ ~last.raised
            /\ last.value = LastTurns(turns, Min(last.limit, Len(turns)))
            /\ Len(last.value) <= last.limit

\* C8: save_message(u, role, content) followed immediately by
\* get_recent_messages(u, 1) returns a non-empty sequence whose last element has
\* the saved role and content, whether or not u had a record before.
C8_SaveThenGetRoundTrip ==
    (/\ last.op = "get" /\ last.limit = 1
     /\ prev.op = "save" /\ prev.user_id = last.user_id)
    => /\ ~last.raised
       /\ last.value # <<>>
       /\ last.value[Len(last.value)] = Message(prev.role, prev.content)

\* C8 witness: the round trip on a first write (the save created the record),
\* while another user already has a record.
C8_Witness ==
    /\ last.op = "get" /\ last.limit = 1
    /\ prev.op = "save" /\ prev.user_id = last.user_id
    /\ Len(UserTurns(chat_collection, last.user_id)) = 1
    /\ Len(chat_collection) = 2
    /\ last.value = <<Message(prev.role, prev.content)>>

\* a step that is a get_recent_messages call
IsGetStep == ops' = ops + 1 /\ last'.op = "get"

\* C9: get_recent_messages for a user with no conversation record returns the
\* empty sequence, does not raise, and creates no record for that user.
C9_UnknownUserEmptyNoCreate ==
    [][ (IsGetStep /\ FindUser(chat_collection, last'.user_id) = <<>>)
        => /\ ~last'.raised
           /\ last'.value = <<>>
           /\ chat_collection' = chat_collection ]_vars

\* C9 witness: a get for a user without a record has returned, in a store that
\* holds another user's record.
C9_Witness ==
    /\ last.op = "get"
    /\ FindUser(chat_collection, last.user_id) = <<>>
    /\ chat_collection # <<>>
    /\ last.value = <<>> /\ ~last.raised

\* C10: get_recent_messages is a pure read: two calls with the same user and
\* limit and no save_message in between return the same sequence, and a call
\* leaves every conversation record unchanged.
C10_PureRead ==
    /\ [] ( (/\ last.op = "get" /\ prev.op = "get"
             /\ last.user_id = prev.user_id /\ last.limit = prev.limit)
            => (last.value = prev.value /\ last.raised = prev.raised) )
    /\ [][ IsGetStep => chat_collection' = chat_collection ]_vars

\* C10 witness: two consecutive equal reads of a user with two or more turns.
C10_Witness ==
    /\ last.op = "get" /\ prev.op = "get"
    /\ last.user_id = prev.user_id /\ last.limit = prev.limit
    /\ last.limit = 1
    /\ Len(UserTurns(chat_collection, last.user_id)) >= 2
    /\ last.value # <<>> /\ last.value = prev.value

\* a step that is a save_message call
IsSaveStep == ops' = ops + 1 /\ last'.op = "save"

\* C11: a user's conversation is append-only: a save_message leaves the user's
\* turns before it as a strict prefix of the turns after it, exactly one turn
\* longer; no operation removes, edits or reorders a written turn; and a
\* save_message for one user leaves every other user's conversation unchanged.
C11_AppendOnly ==
    [][ \A u \in Users :
          LET before == UserTurns(chat_collection, u)
              after == UserTurns(chat_collection', u)
          IN  IF IsSaveStep /\ last'.user_id = u
              THEN /\ Len(after) = Len(before) + 1
                   /\ SubSeq(after, 1, Len(before)) = before
                   /\ after[Len(after)] = Message(last'.role, last'.content)
              ELSE after = before ]_vars

\* C11 witness: a save_message has extended a conversation that already had
\* turns, while another user holds a conversation of a different content.
C11_Witness ==
    /\ last.op = "save"
    /\ Len(UserTurns(chat_collection, last.user_id)) >= 3
    /\ \E u \in Users \ {last.user_id} :
          /\ UserTurns(chat_collection, u) # <<>>
          /\ UserTurns(chat_collection, u)[1] # UserTurns(chat_collection, last.user_id)[1]

-----------------------------------------------------------------------------
(* WriterSpec: concurrent save_message calls, and the claim about them.    *)

WriterNext == \E w \in Writers : SaveBegin(w) \/ UpdateOneMatch(w) \/ UpsertInsert(w)

WriterSpec == Init /\ [][WriterNext]_vars

\* the save_message calls that have returned with this user and this turn
ReturnedSaves(user_id, turn) ==
    {w \in Writers : /\ wr[w].pc = "done"
                     /\ wr[w].user_id = user_id
                     /\ Message(wr[w].role, wr[w].content) = turn}

\* how often a turn occurs in a sequence of turns
Occurrences(turn, turns) == Cardinality({i \in 1..Len(turns) : turns[i] = turn})

\* C12: under any interleaving of concurrent save_message calls for one user,
\* first writes included, no update is lost: once the calls have returned there
\* is at most one conversation record for the user, every call's turn is in it
\* exactly once, and get_recent_messages sees all of them.
C12_NoLostUpdate ==
    (\A w \in Writers : wr[w].pc \in {"idle", "done"}) =>
        \A u \in Users :
            LET records == {i \in 1..Len(chat_collection) : chat_collection[i].user_id = u}
                seen == get_recent_messages(chat_collection, u, DefaultLimit).value
            IN  /\ Cardinality(records) <= 1
                /\ \A w \in Writers :
                      (wr[w].pc = "done" /\ wr[w].user_id = u) =>
                          LET turn == Message(wr[w].role, wr[w].content)
                          IN  /\ Occurrences(turn, UserTurns(chat_collection, u))
                                    = Cardinality(ReturnedSaves(u, turn))
                              /\ Occurrences(turn, seen)
                                    = Cardinality(ReturnedSaves(u, turn))

-----------------------------------------------------------------------------
(* CallSpec: callers of the Knowledge Retriever, of detect_language and of *)
(* chunk_text.                                                             *)

TopKs == 1..MaxTopK

\* min_score in percent: no threshold, the default 0.6, deep_learning's 0.8, 1.0
MinScores == {0, MinScorePct, 80, 100}

\* the texts detect_language is called on: empty, blank, English, Hinglish
Texts == { <<>>, <<" ">>, QWhatIs, QKyaHai, <<"K","y","a"," ","h","a","i"," ","y","e","h"," ","s","a","b">> }

\* the chunks the ingestion script adds
NewChunks ==
    { [text |-> <<"p","i">>, subject |-> "math", embedding |-> 6],
      [text |-> <<"d","n","a"," ","3">>, subject |-> "bio", embedding |-> 2] }

\* a caller awaits query_rag_chunks(query, top_k, min_score); get_embedding,
\* its first statement, may raise
QueryRagCall ==
    /\ ops < MaxCalls
    /\ \E query \in Queries, top_k \in TopKs, min_score \in MinScores :
          \/ last' = [op |-> "query_rag_chunks", query |-> query, top_k |-> top_k,
                      min_score |-> min_score, fault |-> FALSE, raised |-> FALSE,
                      value |-> query_rag_chunks(rag_chunks, query, top_k, min_score)]
          \/ last' = [op |-> "query_rag_chunks", query |-> query, top_k |-> top_k,
                      min_score |-> min_score, fault |-> TRUE, raised |-> TRUE,
                      value |-> <<>>]
    /\ prev' = last
    /\ ops' = ops + 1
    /\ UNCHANGED <<storeVars, req, received, otherVars>>

\* insert_chunks(document): collection.insert_one
InsertChunksCall ==
    /\ ops < MaxCalls
    /\ \E document \in NewChunks :
          /\ rag_chunks' = Append(rag_chunks, document)
          /\ last' = [op |-> "insert_chunks", raised |-> FALSE, value |-> <<document>>]
    /\ prev' = last
    /\ ops' = ops + 1
    /\ UNCHANGED <<chat_collection, chat_multimodal_collection, mongo_collection,
                   req, received, otherVars>>

\* a caller runs detect_language(text); the classifier answers cls
DetectLanguageCall ==
    /\ ops < MaxCalls
    /\ \E text \in Texts, cls \in ClassifierOutcomes :
          last' = [op |-> "detect_language", text |-> text, cls |-> cls,
                   raised |-> FALSE, value |-> detect_language(text, cls)]
    /\ prev' = last
    /\ ops' = ops + 1
    /\ UNCHANGED <<storeVars, req, received, otherVars>>

\* the texts chunk_text is called on: empty; one sentence without a period;
\* sentences of several lengths; doubled blanks and a trailing ". "
ChunkTexts ==
    { <<>>,
      <<"a","b","c","d","e">>,
      <<"a","b","."," ","c">>,
      <<"a","b","."," ","c","d","."," ","e">>,
      <<"a","b","c","d","e","f","g","."," ","h">>,
      <<"a","."," "," ","b","."," ">> }

\* max_len: two small sizes and the default
MaxLens == {3, 5, MaxLen}

\* a caller runs chunk_text(text, max_len)
ChunkTextCall ==
    /\ ops < MaxCalls
    /\ \E text \in ChunkTexts, max_len \in MaxLens :
          last' = [op |-> "chunk_text", text |-> text, max_len |-> max_len,
                   raised |-> FALSE, value |-> chunk_text(text, max_len)]
    /\ ops' = ops + 1
    /\ UNCHANGED <<storeVars, prev, req, received, otherVars>>

\* line 124: the fields a routing decision must have (reasoning is the sixth)
required_fields == <<"intent", "complexity", "sources", "strategy", "confidence">>

\* A model output is a sequence of lexemes.  String literals ("<empty>" is
\* the literal of the empty string):
JsonStrings == {"intent", "complexity", "sources", "strategy", "confidence",
                "reasoning", "question", "options", "answer", "explanation",
                "v", "ok", "Q1", "A", "B", "<empty>"}

JsonNumbers == {"0.8", "5", "0"}

StringText(tok) == IF tok = "<empty>" THEN "" ELSE tok

\* The Python values json.loads gives: str, number, None, list, dict.  The
\* elements of a list and the items of a dict are [key, value] records, the
\* key of a list element being "".
Str(text) == [type |-> "string", text |-> text, elems |-> <<>>]

Num(text) == [type |-> "number", text |-> text, elems |-> <<>>]

JsonNull == [type |-> "null", text |-> "", elems |-> <<>>]

Arr(elems) == [type |-> "array", text |-> "", elems |-> elems]

Obj(elems) == [type |-> "object", text |-> "", elems |-> elems]

Item(key, value) == [key |-> key, value |-> value]

RECURSIVE JsonValue(_, _)
RECURSIVE JsonElements(_, _, _)
RECURSIVE JsonMembers(_, _, _)

\* the JSON value that starts at lexeme i, and where it ends (0: none)
JsonValue(toks, i) ==
    IF i > Len(toks) THEN [end |-> 0, value |-> JsonNull]
    ELSE IF toks[i] \in JsonStrings THEN [end |-> i, value |-> Str(StringText(toks[i]))]
    ELSE IF toks[i] \in JsonNumbers THEN [end |-> i, value |-> Num(toks[i])]
    ELSE IF toks[i] = "null" THEN [end |-> i, value |-> JsonNull]
    ELSE IF toks[i] = "["
         THEN IF i + 1 <= Len(toks) /\ toks[i + 1] = "]"
              THEN [end |-> i + 1, value |-> Arr(<<>>)]
              ELSE JsonElements(toks, i + 1, <<>>)
    ELSE IF toks[i] = "{"
         THEN IF i + 1 <= Len(toks) /\ toks[i + 1] = "}"
              THEN [end |-> i + 1, value |-> Obj(<<>>)]
              ELSE JsonMembers(toks, i + 1, <<>>)
    ELSE [end |-> 0, value |-> JsonNull]

\* the elements of an array after "[": values separated by "," up to "]"
JsonElements(toks, i, acc) ==
    LET v == JsonValue(toks, i)
    IN  IF v.end = 0 \/ v.end + 1 > Len(toks)
        THEN [end |-> 0, value |-> JsonNull]
        ELSE IF toks[v.end + 1] = "]"
             THEN [end |-> v.end + 1, value |-> Arr(Append(acc, Item("", v.value)))]
             ELSE IF toks[v.end + 1] = ","
                  THEN JsonElements(toks, v.end + 2, Append(acc, Item("", v.value)))
                  ELSE [end |-> 0, value |-> JsonNull]

\* the members of an object after "{": key ":" value separated by "," up to "}"
JsonMembers(toks, i, acc) ==
    IF i + 1 > Len(toks) \/ toks[i] \notin JsonStrings \/ toks[i + 1] # ":"
    THEN [end |-> 0, value |-> JsonNull]
    ELSE LET v == JsonValue(toks, i + 2)
             key == StringText(toks[i])
         IN  IF v.end = 0 \/ v.end + 1 > Len(toks)
             THEN [end |-> 0, value |-> JsonNull]
             ELSE IF toks[v.end + 1] = "}"
                  THEN [end |-> v.end + 1, value |-> Obj(Append(acc, Item(key, v.value)))]
                  ELSE IF toks[v.end + 1] = ","
                       THEN JsonMembers(toks, v.end + 2, Append(acc, Item(key, v.value)))
                       ELSE [end |-> 0, value |-> JsonNull]

\* json.loads: the whole text, blanks between lexemes aside, must be one JSON
\* value, else JSONDecodeError
json_loads(text) ==
    LET toks == SelectSeq(text, LAMBDA t : t \notin Whitespace)
        v == JsonValue(toks, 1)
    IN  IF v.end # 0 /\ v.end = Len(toks)
        THEN [raised |-> FALSE, value |-> v.value]
        ELSE [raised |-> TRUE, value |-> JsonNull]

\* str.strip() of a model output: blank lexemes at both ends go
RECURSIVE StripTokens(_)
StripTokens(toks) ==
    IF toks = <<>> THEN <<>>
    ELSE IF toks[1] \in Whitespace THEN StripTokens(Tail(toks))
    ELSE IF toks[Len(toks)] \in Whitespace THEN StripTokens(SubSeq(toks, 1, Len(toks) - 1))
    ELSE toks

\* the keys of a dict
Keys(decision) == {decision.elems[k].key : k \in 1..Len(decision.elems)}

\* dict.get(key): the value of the key, None without it
Get(dict, key) ==
    IF key \in Keys(dict)
    THEN dict.elems[CHOOSE k \in 1..Len(dict.elems) :
                        /\ dict.elems[k].key = key
                        /\ \A m \in (k + 1)..Len(dict.elems) : dict.elems[m].key # key].value
    ELSE JsonNull

\* Python's `field in decision`: a key of a dict, an element of a list, the
\* text of a one-word str; a number or None has no `in` (TypeError)
In(field, decision) ==
    CASE decision.type = "object" -> field \in Keys(decision)
      [] decision.type = "array" ->
            \E k \in 1..Len(decision.elems) : decision.elems[k].value = Str(field)
      [] decision.type = "string" -> decision.text = field
      [] OTHER -> FALSE

\* lines 131-138: the decision of the except branch (reasoning, a text made
\* of the exception, left out)
FallbackDecision(query) ==
    Obj(<< Item("intent", Str("question")),
           Item("complexity", Str("medium")),
           Item("sources", IF ~is_direct_answer(query)
                           THEN Arr(<<Item("", Str("rag")), Item("", Str("web"))>>)
                           ELSE Arr(<<Item("", Str("direct_llm"))>>)),
           Item("strategy", IF ~is_direct_answer(query)
                            THEN Str("research_based") ELSE Str("quick_response")),
           Item("confidence", Num("0.5")),
           Item("reasoning", Str("Fallback")) >>)

\* the outcomes of the model call: the API raises, or a message whose content
\* is None or a text
ApiRaises == [kind |-> "raise", content |-> <<>>]

NoContent == [kind |-> "none", content |-> <<>>]

\* the text of an object with the given fields, in the order of the prompt
RECURSIVE ObjectBody(_)
ObjectBody(fields) ==
    IF fields = <<>> THEN <<>>
    ELSE <<fields[1], ":", IF fields[1] = "sources" THEN "[" ELSE "v">>
         \o (IF fields[1] = "sources" THEN <<"v", "]">> ELSE <<>>)
         \o (IF Len(fields) > 1 THEN <<",">> ELSE <<>>)
         \o ObjectBody(Tail(fields))

ObjectText(S) ==
    <<"{">> \o ObjectBody(SelectSeq(required_fields \o <<"reasoning">>, LAMBDA f : f \in S)) \o <<"}">>

Required == {required_fields[i] : i \in 1..Len(required_fields)}

\* the texts the model answers with: an object with the six fields, without
\* reasoning, without one of the required fields or without any, alone or
\* padded with blank lines, fenced as markdown, cut off by max_tokens, behind a sentence of prose; an array, a string, a number,
\* nothing
DecisionTexts ==
    { ObjectText((Required \cup {"reasoning"}) \ S) : S \in {{}, {"reasoning"}} \cup {{f} : f \in Required} }
    \cup { ObjectText({}),
           <<"\n">> \o ObjectText((Required \cup {"reasoning"})) \o <<"\n">>,
           <<"<fence>", "json", "\n">> \o ObjectText((Required \cup {"reasoning"})) \o <<"\n", "<fence>">>,
           SubSeq(ObjectText((Required \cup {"reasoning"})), 1, Len(ObjectText((Required \cup {"reasoning"}))) - 1),
           <<"Here">> \o ObjectText(Required),
           ObjectText(Required) \o <<",">>,
           <<"[", "intent", ",", "complexity", ",", "sources", ",", "strategy", ",",
             "confidence", "]">>,
           <<"[", "]">>,
           <<"ok">>,
           <<"0.8">>,
           <<>> }

DecisionOutputs ==
    {ApiRaises, NoContent} \cup { [kind |-> "text", content |-> t] : t \in DecisionTexts }

\* the validation of lines 124-128 left out: whatever parses is returned
llm_orchestrator_decision_unvalidated(query, out) ==
    IF out.kind # "text"
    THEN [raised |-> FALSE, value |-> FallbackDecision(query)]
    ELSE LET parsed == json_loads(StripTokens(out.content))
         IN  IF parsed.raised
             THEN [raised |-> FALSE, value |-> FallbackDecision(query)]
             ELSE [raised |-> FALSE, value |-> parsed.value]

\* lines 107-139: every exception of the try block (that of the API, the
\* AttributeError of None.strip(), the JSONDecodeError, the TypeError of `in`
\* on a number, the ValueError of line 128) ends in the except branch
llm_orchestrator_decision(query, out) ==
    IF out.kind # "text"
    THEN [raised |-> FALSE, value |-> FallbackDecision(query)]
    ELSE LET parsed == json_loads(StripTokens(out.content))
         IN  IF parsed.raised \/ parsed.value.type \notin {"object", "array", "string"}
             THEN [raised |-> FALSE, value |-> FallbackDecision(query)]
             ELSE IF \A i \in 1..Len(required_fields) : In(required_fields[i], parsed.value)
                  THEN [raised |-> FALSE, value |-> parsed.value]
                  ELSE [raised |-> FALSE, value |-> FallbackDecision(query)]

\* a caller runs llm_orchestrator_decision(query, user_lang, history)
OrchestratorDecisionCall ==
    /\ ops < MaxCalls
    /\ \E query \in Queries, out \in DecisionOutputs :
          LET res == llm_orchestrator_decision(query, out)
          IN  last' = [op |-> "llm_orchestrator_decision", query |-> query, out |-> out,
                       raised |-> res.raised, value |-> res.value]
    /\ ops' = ops + 1
    /\ UNCHANGED <<storeVars, prev, req, received, otherVars>>

CallNext == QueryRagCall \/ InsertChunksCall \/ DetectLanguageCall

\* json_text.strip(fence characters): the markdown fences ("<fence>") at both
\* ends go
RECURSIVE StripFence(_)
StripFence(toks) ==
    IF toks = <<>> THEN <<>>
    ELSE IF toks[1] = "<fence>" THEN StripFence(Tail(toks))
    ELSE IF toks[Len(toks)] = "<fence>" THEN StripFence(SubSeq(toks, 1, Len(toks) - 1))
    ELSE toks

\* str.find and str.rfind, counted from 0; -1 when absent
Find(tok, toks) ==
    IF \E k \in 1..Len(toks) : toks[k] = tok
    THEN (CHOOSE k \in 1..Len(toks) : toks[k] = tok /\ \A m \in 1..(k - 1) : toks[m] # tok) - 1
    ELSE -1

RFind(tok, toks) ==
    IF \E k \in 1..Len(toks) : toks[k] = tok
    THEN (CHOOSE k \in 1..Len(toks) :
              toks[k] = tok /\ \A m \in (k + 1)..Len(toks) : toks[m] # tok) - 1
    ELSE -1

\* text[start:end], a negative start counted from the end
Slice(toks, start, end) ==
    LET from == IF start < 0 THEN (IF Len(toks) + start < 0 THEN 0 ELSE Len(toks) + start)
                ELSE start
        to == IF end > Len(toks) THEN Len(toks) ELSE end
    IN  SubSeq(toks, from + 1, to)

\* lines 67-78: what is handed to json.loads from the first output
FirstJsonText(content) ==
    LET raw == StripTokens(content)
        json_text == IF raw # <<>> /\ raw[1] = "<fence>"
                     THEN StripTokens(StripFence(raw)) ELSE raw
        start == Find("[", json_text)
        end == RFind("]", json_text) + 1
    IN  IF start # -1 /\ end # -1 THEN Slice(json_text, start, end) ELSE json_text

\* lines 93-94: what is handed to json.loads from the second output
SecondJsonText(raw2) == Slice(raw2, Find("[", raw2), RFind("]", raw2) + 1)

\* Python truthiness of a parsed value
Truthy(v) ==
    CASE v.type = "string" -> v.text # ""
      [] v.type = "number" -> v.text # "0"
      [] v.type = "null" -> FALSE
      [] OTHER -> v.elems # <<>>

\* lines 102-113 without the test of line 107: every dict is kept
RECURSIVE NormalizeAll(_)
NormalizeAll(elems) ==
    IF elems = <<>> THEN <<>>
    ELSE LET it == elems[1].value
         IN  (IF it.type = "object"
              THEN << Obj(<< Item("question", Get(it, "question")),
                             Item("options", Get(it, "options")),
                             Item("answer", Get(it, "answer")),
                             Item("explanation", IF Truthy(Get(it, "explanation"))
                                                 THEN Get(it, "explanation") ELSE Str("")) >>) >>
              ELSE <<>>)
             \o NormalizeAll(Tail(elems))

\* lines 102-113: the items that are dicts with a truthy question, a list of
\* options and a truthy answer
RECURSIVE Normalize(_)
Normalize(elems) ==
    IF elems = <<>> THEN <<>>
    ELSE LET it == elems[1].value
             q == IF it.type = "object" THEN Get(it, "question") ELSE JsonNull
             opts == IF it.type = "object" THEN Get(it, "options") ELSE JsonNull
             ans == IF it.type = "object" THEN Get(it, "answer") ELSE JsonNull
             expl == IF it.type = "object" THEN Get(it, "explanation") ELSE JsonNull
         IN  (IF Truthy(q) /\ opts.type = "array" /\ Truthy(ans)
              THEN << Obj(<< Item("question", q), Item("options", opts),
                             Item("answer", ans),
                             Item("explanation", IF Truthy(expl) THEN expl ELSE Str("")) >>) >>
              ELSE <<>>)
             \o Normalize(Tail(elems))

\* lines 60-98: the items the normalisation starts from, after one or two
\* generation calls; out1 is the outcome of the generation call, out2 that of
\* the regeneration call if it is made
ParsedItems(out1, out2) ==
    IF out1.kind # "text"
    THEN [raised |-> TRUE, items |-> JsonNull, calls |-> 1]
    ELSE LET first == json_loads(FirstJsonText(out1.content))
         IN  IF ~first.raised
             THEN [raised |-> FALSE, items |-> first.value, calls |-> 1]
             ELSE IF out2.kind = "raise"
                  THEN [raised |-> TRUE, items |-> JsonNull, calls |-> 2]
                  ELSE IF out2.kind = "none"
                       THEN [raised |-> FALSE, items |-> Arr(<<>>), calls |-> 2]
                       ELSE LET second == json_loads(SecondJsonText(out2.content))
                            IN  [raised |-> FALSE, calls |-> 2,
                                 items |-> IF second.raised THEN Arr(<<>>)
                                           ELSE second.value]

\* generate_mcqs_from_summary without the test of line 107
generate_mcqs_from_summary_unfiltered(out1, out2) ==
    LET got == ParsedItems(out1, out2)
    IN  IF got.raised
        THEN [raised |-> TRUE, value |-> <<>>, calls |-> got.calls]
        ELSE CASE got.items.type = "array" ->
                    [raised |-> FALSE, value |-> NormalizeAll(got.items.elems),
                     calls |-> got.calls]
               [] got.items.type \in {"object", "string"} ->
                    [raised |-> FALSE, value |-> <<>>, calls |-> got.calls]
               [] OTHER -> [raised |-> TRUE, value |-> <<>>, calls |-> got.calls]

\* lines 40-114.  Lines 101-114 on the parsed items: a list is normalised;
\* the keys of a dict and the characters of a str are not dicts, nothing is
\* kept; a number or None cannot be iterated (TypeError)
generate_mcqs_from_summary(out1, out2) ==
    LET got == ParsedItems(out1, out2)
    IN  IF got.raised
        THEN [raised |-> TRUE, value |-> <<>>, calls |-> got.calls]
        ELSE CASE got.items.type = "array" ->
                    [raised |-> FALSE, value |-> Normalize(got.items.elems),
                     calls |-> got.calls]
               [] got.items.type \in {"object", "string"} ->
                    [raised |-> FALSE, value |-> <<>>, calls |-> got.calls]
               [] OTHER -> [raised |-> TRUE, value |-> <<>>, calls |-> got.calls]

\* the texts the model answers with: the array of one complete question
\* alone, fenced, behind prose, cut off; a mixed array whose first item is
\* complete and whose others have an empty question, options that are no
\* list, an empty answer, no answer, or are no objects; one object; a number;
\* prose only; nothing
McqTexts ==
    LET McqItem(question, options, answer) ==
            <<"{", "question", ":", question, ",", "options", ":">> \o options
            \o <<",", "answer", ":", answer, "}">>
        GoodItem == McqItem("Q1", <<"[", "A", ",", "B", "]">>, "B")
        GoodArray == <<"[">> \o GoodItem \o <<"]">>
        MixedArray ==
            <<"[">> \o GoodItem
            \o <<",">> \o McqItem("<empty>", <<"[", "A", "]">>, "A")
            \o <<",">> \o McqItem("Q1", <<"A">>, "A")
            \o <<",">> \o McqItem("Q1", <<"[", "]">>, "<empty>")
            \o <<",", "{", "question", ":", "Q1", ",", "options", ":", "[", "A", "]", "}">>
            \o <<",", "ok", ",", "5", "]">>
    IN  { GoodArray,
          <<"<fence>", "json", "\n">> \o GoodArray \o <<"\n", "<fence>">>,
          <<"Here", ":", "\n">> \o GoodArray,
          SubSeq(GoodArray, 1, Len(GoodArray) - 1),
          MixedArray,
          GoodItem,
          <<"5">>,
          <<"Sorry">>,
          <<>> }

McqOutputs ==
    {ApiRaises, NoContent} \cup { [kind |-> "text", content |-> t] : t \in McqTexts }

\* a caller runs generate_mcqs_from_summary(summary, num_questions, difficulty)
GenerateMcqsCall ==
    /\ ops < MaxCalls
    /\ \E out1 \in McqOutputs, out2 \in McqOutputs :
          LET res == generate_mcqs_from_summary(out1, out2)
          IN  last' = [op |-> "generate_mcqs_from_summary", out1 |-> out1,
                       out2 |-> IF res.calls = 2 THEN out2 ELSE NoContent,
                       raised |-> res.raised, value |-> res.value, calls |-> res.calls]
    /\ ops' = ops + 1
    /\ UNCHANGED <<storeVars, prev, req, received, otherVars>>

PureNext ==
    \/ ChunkTextCall
    \/ OrchestratorDecisionCall
    \/ GenerateMcqsCall

PureSpec == Init /\ [][PureNext]_vars

CallSpec == Init /\ [][CallNext]_vars

\* every stored chunk ranked by score, the threshold applied to all of them,
\* then the first top_k kept
FilterThenTruncate(coll, query, top_k, min_score) ==
    LET embedding == get_embedding(query)
        ranked == Nearest(coll, 1..Len(coll), embedding, Len(coll))
        projected == [n \in 1..Len(ranked) |->
                        [text |-> coll[ranked[n]].text,
                         subject |-> coll[ranked[n]].subject,
                         score |-> ScorePct(embedding, coll[ranked[n]].embedding)]]
        Clears(d) == d.score >= min_score
        cleared == SelectSeq(projected, Clears)
    IN  SubSeq(cleared, 1, Min(top_k, Len(cleared)))

\* the stored chunks whose score against the query clears the threshold
Clearing(coll, query, min_score) ==
    {i \in 1..Len(coll) :
        ScorePct(get_embedding(query), coll[i].embedding) >= min_score}

\* C13: query_rag_chunks(text, top_k, min_score) returns at most top_k results,
\* each with score >= min_score, in descending score order; the result is the
\* same whether the threshold is applied before or after truncating to the
\* top_k nearest; when no chunk clears the threshold it returns the empty
\* sequence and does not raise.
C13_TopKThresholdOrder ==
    (last.op = "query_rag_chunks" /\ ~last.fault) =>
        /\ ~last.raised
        /\ Len(last.value) <= last.top_k
        /\ \A i \in 1..Len(last.value) : last.value[i].score >= last.min_score
        /\ \A i, j \in 1..Len(last.value) :
              i < j => last.value[i].score >= last.value[j].score
        /\ last.value = FilterThenTruncate(rag_chunks, last.query, last.top_k, last.min_score)
        /\ Clearing(rag_chunks, last.query, last.min_score) = {} => last.value = <<>>

\* C13 witness: a call whose result the top_k cut short (more chunks clear the
\* threshold than top_k) while the threshold removed a nearer-than-k chunk in
\* the call before it, which returned nothing from a store that holds chunks.
C13_Witness ==
    /\ last.op = "query_rag_chunks" /\ ~last.fault
    /\ Len(last.value) = last.top_k
    /\ Cardinality(Clearing(rag_chunks, last.query, last.min_score)) > last.top_k
    /\ prev.op = "query_rag_chunks" /\ ~prev.fault /\ ~prev.raised
    /\ prev.value = <<>>
    /\ Len(rag_chunks) >= prev.top_k

\* C15: detect_language never raises and always returns english or hinglish,
\* for every text, the empty string included, and every classifier outcome, an
\* exception included; when the classifier fails the tag is english.
C15_AlwaysATag ==
    last.op = "detect_language" =>
        /\ ~last.raised
        /\ last.value \in {"english", "hinglish"}
        /\ last.cls = "raise" => last.value = "english"

\* C15 witness: the classifier raised on the empty string and the call returned
\* english, after a call that returned hinglish.
C15_Witness ==
    /\ last.op = "detect_language"
    /\ last.text = <<>> /\ last.cls = "raise" /\ last.value = "english"
    /\ prev.op = "detect_language" /\ prev.value = "hinglish"

-----------------------------------------------------------------------------
(* LessonSpec: one worker process serving generate_deep_learning requests. *)

LessonNext ==
    \/ GenerateDeepLearning
    \/ RetrieveChunks
    \/ WebSearch
    \/ \E i \in 1..NumResults : ScrapeAndSummarize(i)
    \/ GatherRaise
    \/ GatherReturn
    \/ ChunkAndStoreSummary
    \/ FinalCompletion
    \/ WebFallbackSettled
    \/ GenerateLesson
    \/ SaveLesson

LessonSpec == Init /\ [][LessonNext]_vars

-----------------------------------------------------------------------------
(* Claims about the lesson endpoint and the Web Resolver, under LessonSpec. *)

\* C14: when the embedding provider fails during retrieval, the caller of
\* query_rag_chunks treats the retrieval as having returned no chunks and
\* proceeds to the web fallback; the request does not crash because of the
\* embedding failure.
C14_EmbeddingFailureFallsToWeb ==
    ("get_embedding" \in dl.faults) =>
        /\ dl.calls.web_fallback_answer = 1
        /\ ~(dl.pc = "failed" /\ dl.faults = {"get_embedding"})

\* web_search has run and yielded no URLs: None or the empty list
NoUrls(w) == w.calls.web_search = 1 /\ w.urls.value = <<>>

\* C16: when the web search yields no URLs (an empty list, or a provider
\* failure), web_fallback_answer returns the fixed nothing-found response
\* without raising, and in that run it makes no scrape, no summarization and no
\* final completion call and persists no KnowledgeChunk.
C16_NoUrlsShortCircuit ==
    /\ [] ( NoUrls(web) =>
              /\ web.pc = "returned"
              /\ web.value = NothingFound
              /\ web.calls.fetch = 0
              /\ web.calls.summarize = 0
              /\ web.calls.final_completion = 0
              /\ web.calls.get_embedding = 0
              /\ web.calls.insert_many = 0
              /\ web.task = <<>> )
    /\ [][ NoUrls(web') => rag_chunks' = rag_chunks ]_vars

\* C16 witness: the search provider failed, the resolver returned the fixed
\* response and the lesson endpoint went on with it as its extra context.
C16_Witness ==
    /\ NoUrls(web)
    /\ "web_search" \in web.faults
    /\ web.pc = "returned" /\ web.value = NothingFound
    /\ dl.pc = "done" /\ dl.chunk_text = NothingFound
    /\ rag_chunks = InitRagChunks

\* the fan-out is over and its result was aggregated: every task has returned
\* and web_fallback_answer is past the gather
Aggregated(w) ==
    /\ w.task # <<>>
    /\ w.pc # "gather"
    /\ \A i \in 1..Len(w.task) : w.task[i].pc = "returned"

\* the summaries of the URLs whose fetch and parse did not fail, blank ones
\* left out, in URL order
RemainingSummaries(w) ==
    LET remaining == SelectSeq([i \in 1..Len(w.task) |-> i],
                               LAMBDA i : /\ w.task[i].fault # "fetch"
                                          /\ Strip(w.task[i].summary) # <<>>)
    IN  [n \in 1..Len(remaining) |-> w.task[remaining[n]].summary]

\* C17: in the fan-out a fetch or parse failure on any subset of the URLs
\* yields an empty summary for exactly those URLs and does not fail the others:
\* the aggregated context is the non-empty (non-blank) summaries of the
\* remaining URLs put together in URL order, a blank line between two of them,
\* truncated to 7000 characters.
C17_PartialFailureContext ==
    /\ \A i \in 1..Len(web.task) :
          web.task[i].fault = "fetch" =>
              (web.task[i].pc = "returned" /\ web.task[i].summary = <<>>)
    /\ (web.pc = "raised" /\ "summarize" \notin web.faults)
          => "final_completion" \in web.faults
    /\ Aggregated(web) =>
          /\ web.context = Truncate(Join(RemainingSummaries(web), <<"\n", "\n">>),
                                    ContextBudget)
          /\ Len(web.context) <= ContextBudget

\* C17 witness: of three URLs the second failed to fetch; the context is the
\* first URL's summary, a blank line, and the third URL's summary as far as
\* the 7000 characters reach.
C17_Witness ==
    /\ Len(web.task) = 3
    /\ web.task[2].fault = "fetch"
    /\ web.task[1].summary = TwoSentences
    /\ web.task[3].summary = LongSummary
    /\ web.pc = "returned"
    /\ Len(web.context) = ContextBudget
    /\ web.context[1] = "a"
    /\ web.context[Len(TwoSentences) + 1] = "\n"
    /\ web.context[Len(TwoSentences) + 3] = "x"

\* the chunks of a resolver's context whose embedding did not fail, in order
EmbeddedChunks(w) ==
    LET kept == SelectSeq([k \in 1..Len(w.chunks) |-> k],
                          LAMBDA k : k \notin w.embed_failed)
    IN  [n \in 1..Len(kept) |-> w.chunks[kept[n]]]

\* C18: embedding or storage failures in the re-index step never block the
\* answer: whether get_embedding fails for some or all chunks or insert_many
\* fails, chunk_and_store_summary does not raise and web_fallback_answer goes
\* on to the final completion call and returns its answer; a chunk whose
\* embedding failed is skipped while the other chunks are still stored.
C18_ReindexFailuresSwallowed ==
    /\ [] ( (web.faults \cap {"get_embedding", "insert_many"} # {}) =>
              /\ web.pc \in {"final", "returned", "raised"}
              /\ web.pc = "raised" => "final_completion" \in web.faults
              /\ web.pc = "returned" =>
                    (web.calls.final_completion = 1 /\ web.value \in Answers) )
    /\ [][ (web.pc = "reindex" /\ web'.pc # "reindex") =>
              /\ web'.pc = "final"
              /\ web'.chunks = chunk_text(web.context, MaxLen)
              /\ IF "insert_many" \in web'.faults
                 THEN rag_chunks' = rag_chunks
                 ELSE /\ Len(rag_chunks') = Len(rag_chunks) + Len(EmbeddedChunks(web'))
                      /\ SubSeq(rag_chunks', 1, Len(rag_chunks)) = rag_chunks
                      /\ \A n \in 1..Len(EmbeddedChunks(web')) :
                            rag_chunks'[Len(rag_chunks) + n].text = EmbeddedChunks(web')[n]
          ]_vars

\* C18 witness: of two chunks the first one's embedding failed and the second
\* was stored; the final completion call was made and its answer returned.
C18_Witness ==
    /\ web.pc = "returned" /\ web.value \in Answers
    /\ web.calls.final_completion = 1
    /\ Len(web.chunks) = 2
    /\ web.embed_failed = {1}
    /\ Len(rag_chunks) = Len(InitRagChunks) + 1
    /\ rag_chunks[Len(rag_chunks)].text = web.chunks[2]
    /\ rag_chunks[Len(rag_chunks)].text # <<>>

\* C19: a completion-provider failure while summarizing one URL in the fan-out
\* is recovered locally: that URL contributes an empty summary, the other
\* URLs' summaries are still used, and web_fallback_answer does not fail
\* because of it; only a failure of the final answer-generation call reaches
\* the caller.
C19_SummarizeFailureRecovered ==
    /\ \A i \in 1..Len(web.task) :
          web.task[i].fault = "summarize" =>
              (web.task[i].pc = "returned" /\ web.task[i].summary = <<>>)
    /\ web.pc = "raised" => "final_completion" \in web.faults
    /\ dl.pc = "failed" => dl.faults \cup web.faults # {"summarize"}

\* web_fallback_answer is past the fan-out: re-indexing, at the final answer,
\* returned or raised to its caller
PastFanOut(w) ==
    w.task # <<>> /\ w.pc \in {"reindex", "final", "returned", "raised"}

\* C20: web_fallback_answer does not go past the fan-out, neither to
\* re-indexing nor to the final answer nor to returning or raising to its
\* caller, until every one of the N scrape+summarize tasks has settled.
C20_WaitsForAllTasks ==
    PastFanOut(web) => \A i \in 1..Len(web.task) : web.task[i].pc # "fetching"

\* the other half of C20, which holds: the failure of one task never cancels a
\* sibling; a task that is waiting for its page keeps waiting or settles
SiblingsNotCancelled ==
    [][ \A i \in 1..Len(web.task) :
          web.task[i].pc = "fetching" =>
              /\ i \in 1..Len(web'.task)
              /\ web'.task[i].url = web.task[i].url
              /\ web'.task[i].pc \in {"fetching", "returned", "raised"} ]_vars

\* the search found URLs and every scrape failed: every task returned ""
AllScrapesFailed(w) ==
    /\ w.task # <<>>
    /\ \A i \in 1..Len(w.task) : w.task[i].pc = "returned" /\ w.task[i].fault = "fetch"

\* C21: if the search returned at least one URL but every per-URL summary is
\* empty (all scrapes failed), web_fallback_answer does not fail and does not
\* return the nothing-found response: the context is the empty string and the
\* final answer comes from a completion call made from the empty context plus
\* the query (plus any supplied history).
C21_AllSummariesEmpty ==
    (AllScrapesFailed(web) /\ web.pc # "gather") =>
        /\ web.context = <<>>
        /\ web.pc \in {"reindex", "final", "returned", "raised"}
        /\ web.pc = "raised" => "final_completion" \in web.faults
        /\ web.pc = "returned" =>
              /\ web.value \in Answers
              /\ web.value # NothingFound
              /\ web.calls.final_completion = 1
              /\ web.messages =
                    <<Message("system", <<"You're a helpful educational assistant.">>)>>
                    \o web.history
                    \o <<Message("user",
                           <<"Use the following web content to answer the user's question:\n\n">>
                           \o <<"\n\nQuestion: ">> \o web.query)>>

\* C21 witness: three URLs, three failed scrapes, and an answer returned from
\* the final completion call.
C21_Witness ==
    /\ Len(web.task) = 3
    /\ AllScrapesFailed(web)
    /\ web.pc = "returned"
    /\ web.context = <<>>
    /\ web.value \in Answers
    /\ web.calls.summarize = 0 /\ web.calls.final_completion = 1

-----------------------------------------------------------------------------
(* Claims about chunk_text as a function of its own, under PureSpec.        *)

\* the sentences a chunk holds: a chunk is its sentences, each followed by
\* ". ", with the whitespace at its ends trimmed
ChunkSentences(chunk) ==
    LET pieces == SplitSentences(chunk \o <<" ">>)
    IN  SubSeq(pieces, 1, Len(pieces) - 1)

RECURSIVE Flatten(_)
Flatten(seqs) == IF seqs = <<>> THEN <<>> ELSE seqs[1] \o Flatten(Tail(seqs))

\* how many sentences the first k chunks hold
Emitted(chunks, k) ==
    Len(Flatten([j \in 1..k |-> ChunkSentences(chunks[j])]))

\* the length of the chunk that sentences a..b of a text make when packed
\* together: each followed by ". ", the last blank trimmed
RECURSIVE Packed(_, _, _)
Packed(sentences, a, b) ==
    IF a > b THEN -1 ELSE Len(sentences[a]) + 2 + Packed(sentences, a + 1, b)

\* a text without its whitespace
Squash(text) == SelectSeq(text, LAMBDA c : c \notin Whitespace)

\* C22: for every text and every max chunk size M no chunk of chunk_text is
\* longer than M characters, except a chunk that consists of a single sentence
\* which alone is longer than M; sentences are packed greedily, a new chunk
\* starting only when adding the next sentence would exceed M.
C22_ChunkLengthLaw ==
    last.op = "chunk_text" =>
        LET M == last.max_len
            chunks == last.value
            sentences == SplitSentences(last.text)
        IN  /\ \A k \in 1..Len(chunks) :
                  \/ Len(chunks[k]) <= M
                  \/ \E n \in 1..Len(sentences) :
                        /\ Len(sentences[n]) > M
                        /\ ChunkSentences(chunks[k]) = <<Strip(sentences[n])>>
            /\ \A k \in 1..(Len(chunks) - 1) :
                  LET first == Emitted(chunks, k - 1) + 1
                      next == Emitted(chunks, k) + 1
                  IN  Packed(sentences, first, next) > M

\* C23: for every text, the chunks of chunk_text put together in order
\* reproduce, modulo trimmed whitespace, the original sentence sequence: every
\* sentence of the input appears exactly once, whole, in the original order,
\* and no sentence or text absent from the input is added.
C23_ChunksReproduceText ==
    last.op = "chunk_text" =>
        LET sentences == SplitSentences(last.text)
            emitted == Flatten([k \in 1..Len(last.value) |-> ChunkSentences(last.value[k])])
        IN  /\ Len(emitted) = Len(sentences)
            /\ \A n \in 1..Len(sentences) : Strip(emitted[n]) = Strip(sentences[n])
            /\ Squash(Flatten(last.value)) = Squash(last.text)

-----------------------------------------------------------------------------
(* Claims about what handle_user_query persists, checked under Spec.       *)

\* the position of a call that occurs once in a log of calls, 0 otherwise
Pos(name, calls) ==
    IF Count(name, calls) = 1 THEN CHOOSE i \in 1..Len(calls) : calls[i] = name ELSE 0

\* a sequence without its last k elements
DropLast(seq, k) == SubSeq(seq, 1, Len(seq) - Min(k, Len(seq)))

\* C24: after an answer is produced handle_user_query performs, in this order
\* and once each: append the user turn (the query), append the assistant turn
\* (the returned answer), attempt the analytics write (user id, query,
\* response, language, source), then return; no turn and no analytics record
\* is written before the answer exists, and the history used for generation
\* was read before either turn was appended.
C24_PersistOrder ==
    \A r \in Reqs :
        LET c == req[r].calls
            turns == UserTurns(chat_collection, req[r].user_id)
        IN  /\ Count("save_message:user", c) <= 1
            /\ Count("save_message:assistant", c) <= 1
            /\ Count("insert_one", c) <= 1
            /\ Count("save_message:user", c) = 1 =>
                  /\ Pos("completion", c) > 0
                  /\ Pos("completion", c) < Pos("save_message:user", c)
                  /\ "completion" \notin req[r].faults
                  /\ req[r].script_text \in Answers
                  /\ Pos("get_recent_messages", c) > 0
                  /\ Pos("get_recent_messages", c) < Pos("completion", c)
            /\ Count("save_message:assistant", c) = 1 =>
                  /\ Pos("save_message:user", c) > 0
                  /\ Pos("save_message:user", c) < Pos("save_message:assistant", c)
            /\ Count("insert_one", c) = 1 =>
                  /\ Pos("save_message:assistant", c) > 0
                  /\ Pos("save_message:assistant", c) < Pos("insert_one", c)
            /\ req[r].pc = "save_user" =>
                  req[r].history = SliceLast(turns, DefaultLimit)
            /\ req[r].pc = "save_assistant" =>
                  /\ turns # <<>> /\ turns[Len(turns)] = Message("user", req[r].query)
                  /\ req[r].history = SliceLast(DropLast(turns, 1), DefaultLimit)
            /\ req[r].pc \in {"analytics", "done"} =>
                  /\ Len(turns) >= 2
                  /\ LastTurns(turns, 2) = << Message("user", req[r].query),
                                              Message("assistant", req[r].script_text) >>
                  /\ req[r].history = SliceLast(DropLast(turns, 2), DefaultLimit)
            /\ req[r].pc = "done" =>
                  /\ Len(c) >= 3
                  /\ LastTurns(c, 3) = <<"save_message:user", "save_message:assistant",
                                         "insert_one">>
                  /\ req[r].response[1].script = req[r].script_text
                  /\ "insert_one" \notin req[r].faults =>
                        /\ mongo_collection # <<>>
                        /\ mongo_collection[Len(mongo_collection)] =
                              [user_id |-> req[r].user_id, query |-> req[r].query,
                               response |-> req[r].script_text,
                               language |-> req[r].user_lang,
                               source |-> req[r].source]

\* C24 witness: a request of a user who already had two turns has returned
\* with both of its turns and its analytics record written.
C24_Witness ==
    \E r \in Reqs :
        /\ req[r].pc = "done"
        /\ Len(req[r].history) = 2
        /\ Len(UserTurns(chat_collection, req[r].user_id)) = 4
        /\ "insert_one" \notin req[r].faults
        /\ mongo_collection # <<>>
        /\ mongo_collection[Len(mongo_collection)].response = req[r].script_text

-----------------------------------------------------------------------------
(* Claims about llm_orchestrator_decision, checked under PureSpec.         *)

\* the model call failed, its output is not valid JSON, or the parsed output
\* lacks a required field
DecisionUnusable(out) ==
    \/ out.kind # "text"
    \/ json_loads(StripTokens(out.content)).raised
    \/ \E f \in Required : ~In(f, json_loads(StripTokens(out.content)).value)

-----------------------------------------------------------------------------
(* Claims about generate_mcqs_from_summary, checked under PureSpec.        *)

\* the first output cannot be parsed
FirstParseFails(out1) ==
    out1.kind = "text" /\ json_loads(FirstJsonText(out1.content)).raised

\* the second output arrived and cannot be parsed
SecondParseFails(out2) ==
    \/ out2.kind = "none"
    \/ out2.kind = "text" /\ json_loads(SecondJsonText(out2.content)).raised

\* C26: generate_mcqs_from_summary makes at most one regeneration attempt, and
\* only after the first output failed to parse (at most two generation calls);
\* if the second output fails to parse as well it returns an empty list and
\* does not raise; every item it returns has a non-empty question, a list of
\* options and a non-empty answer.
C26_OneRegeneration ==
    last.op = "generate_mcqs_from_summary" =>
        /\ last.calls \in {1, 2}
        /\ last.calls = 2 <=> FirstParseFails(last.out1)
        /\ (last.calls = 2 /\ SecondParseFails(last.out2)) =>
              ~last.raised /\ last.value = <<>>
        /\ ~last.raised =>
              \A k \in 1..Len(last.value) :
                  /\ Truthy(Get(last.value[k], "question"))
                  /\ Get(last.value[k], "options").type = "array"
                  /\ Truthy(Get(last.value[k], "answer"))

\* C26 witness: the first output was cut off, the regenerated one was prose,
\* and the empty list came back after two calls.
C26_Witness ==
    /\ last.op = "generate_mcqs_from_summary"
    /\ last.calls = 2
    /\ FirstParseFails(last.out1)
    /\ last.out2.kind = "text" /\ SecondParseFails(last.out2)
    /\ ~last.raised
    /\ last.value = <<>>

\* a list with items of the model dropped: only the complete question of the
\* mixed array came back (reached; the other half of the claim's case)
McqFiltered ==
    /\ last.op = "generate_mcqs_from_summary"
    /\ last.out1.kind = "text"
    /\ ~FirstParseFails(last.out1)
    /\ Len(json_loads(FirstJsonText(last.out1.content)).value.elems) = 7
    /\ ~last.raised
    /\ Len(last.value) = 1

-----------------------------------------------------------------------------
(* Claims about failures of handle_user_query, checked under Spec.         *)

\* the request is between its arrival and its answer
BeforeAnswer(r) == req[r].pc \in {"history", "additional", "generate"}

\* the request failed and no save is what made it fail
FailedBeforeAnswer(r) ==
    /\ req[r].pc = "failed"
    /\ req[r].faults \cap {"save_user", "save_assistant"} = {}

\* C27: a request that fails before an answer is produced (while loading the
\* history or in the generation call) ends failed with both stores as they
\* were: no user turn, no assistant turn, no analytics record written for it.
C27_FailureLeavesStores ==
    /\ [] ( \A r \in Reqs :
              FailedBeforeAnswer(r) =>
                  /\ Ended(r)
                  /\ req[r].script_text \notin Answers
                  /\ Count("save_message:user", req[r].calls) = 0
                  /\ Count("save_message:assistant", req[r].calls) = 0
                  /\ Count("insert_one", req[r].calls) = 0 )
    /\ [][ \A r \in Reqs :
              ( BeforeAnswer(r) \/ (req'[r].pc = "history" /\ req'[r] # req[r]) ) =>
                  /\ chat_collection' = chat_collection
                  /\ mongo_collection' = mongo_collection
                  /\ req'[r].pc \in {"history", "additional", "generate",
                                     "save_user", "failed"}
                  /\ req'[r].pc = "failed" => FailedBeforeAnswer(r)' ]_vars

\* C27 witness: the generation call of a user's second request failed; the
\* store holds the two turns and the one record of the first request.
C27_Witness ==
    \E r \in Reqs :
        /\ FailedBeforeAnswer(r)
        /\ "completion" \in req[r].faults
        /\ Len(req[r].history) = 2
        /\ UserTurns(chat_collection, req[r].user_id) = req[r].history
        /\ Len(mongo_collection) = 1

-----------------------------------------------------------------------------
(* Claims about what the Web Resolver persists, checked under LessonSpec.  *)

\* the text holds something of a sentence: a character that is neither
\* whitespace nor a period
HoldsASentence(text) ==
    \E n \in 1..Len(text) : text[n] \notin Whitespace \cup {"."}

\* the documents the Web Resolver has stored
WebChunks ==
    SelectSeq(rag_chunks, LAMBDA d : "origin_url" \in DOMAIN d)

\* C28: every chunk the Web Resolver persists contains at least one sentence of
\* the aggregated context: chunk_text emits no empty and no punctuation-only
\* chunk, for the empty context and for a context whose first sentence is at
\* least max_len long too, and chunk_and_store_summary stores nothing when the
\* context is empty.
C28_StoredChunksHoldASentence ==
    /\ \A k \in 1..Len(WebChunks) : HoldsASentence(WebChunks[k].text)
    /\ \A k \in 1..Len(web.chunks) : HoldsASentence(web.chunks[k])
    /\ (web.pc \in {"final", "returned", "raised"} /\ web.task # <<>> /\ web.context = <<>>) =>
          web.calls.insert_many = 0

-----------------------------------------------------------------------------
(* Claims about concurrent requests of one user, checked under ConcSpec.   *)

\* deep_learning.py 29-38: init_deep_learning pairs every user message with
\* the assistant message right after it
Chats(messages) ==
    LET at == SelectSeq([i \in 1..(Len(messages) - 1) |-> i],
                        LAMBDA i : /\ messages[i].role = "user"
                                   /\ messages[i + 1].role = "assistant")
    IN  [n \in 1..Len(at) |-> [query |-> messages[at[n]].content,
                               response |-> messages[at[n] + 1].content]]

\* C29: in every reachable state of a user's conversation, two requests of the
\* user running concurrently included, each assistant turn is immediately
\* preceded by the user turn of the same request, so the pairs of adjacent
\* (user, assistant) turns that init_deep_learning builds hold every answer,
\* with its own query.
C29_AssistantFollowsItsUserTurn ==
    \A u \in Users :
        LET turns == UserTurns(chat_collection, u)
        IN  /\ \A i \in 1..Len(turns) :
                  turns[i].role = "assistant" => (i > 1 /\ turns[i - 1].role = "user")
            /\ Len(Chats(turns)) = Len(SelectSeq(turns, LAMBDA m : m.role = "assistant"))
            /\ \A r \in Reqs :
                  (req[r].user_id = u /\ req[r].pc \in {"analytics", "done"}) =>
                      \E n \in 1..Len(Chats(turns)) :
                          /\ Chats(turns)[n].query = req[r].query
                          /\ Chats(turns)[n].response = req[r].script_text

-----------------------------------------------------------------------------
(* Claims about the language tag of handle_user_query, checked under Spec. *)

LanguageTags == {"english", "hinglish"}

\* C30: the language tag that handle_user_query returns and writes to the
\* analytics record is english or hinglish, whatever language hint the request
\* carries (absent, empty, auto, english, hinglish or any other string); it is
\* never auto and never an unrecognized value.
C30_LanguageTagRecognized ==
    /\ \A r \in Reqs :
          req[r].pc = "done" => req[r].response[1].language \in LanguageTags
    /\ \A k \in 1..Len(mongo_collection) : mongo_collection[k].language \in LanguageTags

====
